---- MODULE Spec2Model ----
(***************************************************************************)
(* typed-fsm: the state_machine! macro with the "concurrent" feature.       *)
(*                                                                         *)
(* The model follows src/src/fsm.rs, lines 653-950 (the code the macro     *)
(* generates for one state-machine type): the per-type statics             *)
(* DISPATCH_ACTIVE_*, PENDING_QUEUE_* and DROPPED_EVENTS_*, the hooks      *)
(* on_entry / on_exit / on_process, do_dispatch_internal, init and the     *)
(* concurrency-protected dispatch.  The user-written hook bodies are those *)
(* of three machines of the test suite: SlowFSM (tests/concurrent_tests.rs),*)
(* SelfTransitionFSM (tests/coverage_tests.rs) and BlinkFSM                *)
(* (tests/integration_tests.rs).                                           *)
(*                                                                         *)
(* A caller is a thread or an interrupt handler.  One step of a caller is  *)
(* one access to the shared statics or one hook run; callers interleave    *)
(* freely.  pc[p] in {"process","exit","entry","init_entry"} means that    *)
(* caller p is inside that hook; the step that leaves the position applies *)
(* the hook's effect on the context.                                       *)
(***************************************************************************)
EXTENDS Naturals, Sequences, FiniteSets

VARIABLES
    dispatch_active,   \* [Types -> BOOLEAN]     static DISPATCH_ACTIVE_<NAME>
    pending_queue,     \* [Types -> Seq(Event)]  static PENDING_QUEUE_<NAME>
    dropped_events,    \* [Types -> Nat]         static DROPPED_EVENTS_<NAME>
    fsm,               \* [Instances -> state]   the enum value *self of each instance
    ctx,               \* [Instances -> context] the caller-owned context of each instance
    debug_assertions,  \* BOOLEAN                cfg(debug_assertions) of the build
    pc,                \* [Callers -> position]  where each caller is in init/dispatch
    frame,             \* [Callers -> locals]    self, event, evt and new_state of the call
    fate,              \* history, per type: what became of the i-th dispatch call's event
    enq_log,           \* history, per type: ids of the events pushed to the queue, in order
    trace              \* history, per machine: the hook runs and state updates, in order

vars == <<dispatch_active, pending_queue, dropped_events, fsm, ctx,
          debug_assertions, pc, frame, fate, enq_log, trace>>

----------------------------------------------------------------------------
(* Bounds of the model *)

\* Capacity of heapless::Deque<Event, N>; 16 by default, 4 and 64 in the tests.
QueueCapacity == 2

\* Number of dispatch calls made in one behaviour, over all types.
MaxCalls == 4

----------------------------------------------------------------------------
(* The machines *)

Callers == {"t1", "t2"}

Types == {"SlowFSM", "SelfTransitionFSM", "BlinkFSM"}

Machines == {"x1", "r1", "b1"}

\* A second instance of SlowFSM, with its own stored state and context and the
\* statics of the type: two tests run in parallel, each with its own instance.
Instances == Machines \cup {"x2"}

\* The instances that the concurrency tests drive from several callers; the
\* instance of BlinkFSM is driven by one thread.
Contended == {"x1", "r1"}

TypeOf(m) ==
    CASE m = "r1" -> "SelfTransitionFSM"
      [] m = "b1" -> "BlinkFSM"
      [] OTHER    -> "SlowFSM"

\* enum SlowEvent / enum SelfTransitionEvent / enum BlinkEvent
EventKinds(t) ==
    CASE t = "SlowFSM"  -> {"Switch", "Increment"}
      [] t = "BlinkFSM" -> {"Tick"}
      [] OTHER          -> {"Reset", "DoNothing"}

\* let mut fsm = SlowFSM::StateX;  let mut fsm = SelfTransitionFSM::Running { iteration: 5 };
\* let mut fsm = BlinkFSM::On;
InitialState(m) ==
    CASE TypeOf(m) = "SlowFSM"  -> [tag |-> "StateX"]
      [] TypeOf(m) = "BlinkFSM" -> [tag |-> "On"]
      [] OTHER                  -> [tag |-> "Running", iteration |-> 5]

\* SlowContext { counter: 0, entry_count: 0, exit_count: 0 };  SelfTransitionContext { reset_count: 0 }
\* BlinkContext { led_on_count: 0, led_off_count: 0, tick_count: 0 }
InitialContext(m) ==
    CASE TypeOf(m) = "SlowFSM"  -> [counter |-> 0, entry_count |-> 0, exit_count |-> 0]
      [] TypeOf(m) = "BlinkFSM" -> [led_on_count |-> 0, led_off_count |-> 0, tick_count |-> 0]
      [] OTHER                  -> [reset_count |-> 0]

\* Transition<S>: None, or To(new_state)
TransitionNone == [to |-> FALSE]
TransitionTo(s) == [to |-> TRUE, new_state |-> s]

\* The entry blocks: every state of SlowFSM counts its entries, Running counts
\* resets, On and Off count their own entries and the ticks.
on_entry(s, c) ==
    CASE s.tag \in {"StateX", "StateY"} ->
            [c EXCEPT !.entry_count = @ + 1]
      [] s.tag = "On" ->
            [c EXCEPT !.led_on_count = @ + 1, !.tick_count = @ + 1]
      [] s.tag = "Off" ->
            [c EXCEPT !.led_off_count = @ + 1, !.tick_count = @ + 1]
      [] OTHER ->
            [c EXCEPT !.reset_count = @ + 1]

\* The exit blocks: every state of SlowFSM counts its exits, Running's exit is
\* empty, On and Off have none.
on_exit(s, c) ==
    IF s.tag \in {"StateX", "StateY"}
    THEN [c EXCEPT !.exit_count = @ + 1]
    ELSE c

\* The process blocks: the transition and the context after the block.
on_process(s, c, kind) ==
    CASE s.tag = "StateX" /\ kind = "Switch" ->
            [tr |-> TransitionTo([tag |-> "StateY"]), ctx |-> c]
      [] s.tag = "StateY" /\ kind = "Switch" ->
            [tr |-> TransitionTo([tag |-> "StateX"]), ctx |-> c]
      [] s.tag \in {"StateX", "StateY"} /\ kind = "Increment" ->
            [tr |-> TransitionNone, ctx |-> [c EXCEPT !.counter = @ + 1]]
      [] s.tag = "Running" /\ kind = "Reset" ->
            [tr |-> TransitionTo([tag |-> "Running", iteration |-> 0]), ctx |-> c]
      [] s.tag = "Running" /\ kind = "DoNothing" ->
            [tr |-> TransitionNone, ctx |-> c]
      [] s.tag = "On" /\ kind = "Tick" ->
            [tr |-> TransitionTo([tag |-> "Off"]), ctx |-> c]
      [] s.tag = "Off" /\ kind = "Tick" ->
            [tr |-> TransitionTo([tag |-> "On"]), ctx |-> c]

\* dispatch of a build without the "concurrent" feature (fsm.rs:535-559), on
\* stored state s and context c: process, and for Transition::To exit on the
\* current state, entry on the new state, then the update.  The result is the
\* stored state and the context when the call returns, and the hooks it ran.
dispatch_unprotected(s, c, kind) ==
    LET transition == on_process(s, c, kind) IN
        IF transition.tr.to
        THEN LET new_state == transition.tr.new_state
                 c1 == on_exit(s, transition.ctx)
                 c2 == on_entry(new_state, c1)
             IN [self |-> new_state, ctx |-> c2,
                 hooks |-> <<[hook |-> "process", on |-> s],
                             [hook |-> "exit", on |-> s],
                             [hook |-> "entry", on |-> new_state]>>]
        ELSE [self |-> s, ctx |-> transition.ctx,
              hooks |-> <<[hook |-> "process", on |-> s]>>]

----------------------------------------------------------------------------
(* State *)

NoEvent == [kind |-> "none", id |-> 0]

IdleFrame == [self |-> "x1", event |-> NoEvent, evt |-> NoEvent,
              new_state |-> [tag |-> "none"]]

Init ==
    /\ dispatch_active = [t \in Types |-> FALSE]
    /\ pending_queue = [t \in Types |-> <<>>]
    /\ dropped_events = [t \in Types |-> 0]
    /\ fsm = [m \in Instances |-> InitialState(m)]
    /\ ctx = [m \in Instances |-> InitialContext(m)]
    /\ debug_assertions \in BOOLEAN
    /\ pc = [p \in Callers |-> "idle"]
    /\ frame = [p \in Callers |-> IdleFrame]
    /\ fate = [t \in Types |-> <<>>]
    /\ enq_log = [t \in Types |-> <<>>]
    /\ trace = [m \in Instances |-> <<>>]

----------------------------------------------------------------------------
(* Helpers *)

\* Event ids are the ordinal numbers of the dispatch calls of a type.
NextId(t) == Len(fate[t]) + 1

TotalCalls ==
    Len(fate["SlowFSM"]) + Len(fate["SelfTransitionFSM"]) + Len(fate["BlinkFSM"])

\* The record of a new dispatch call: the instance, what became of the event,
\* the call that held the guard at its push, and the event whose hook made the
\* call (0: the call was not made from inside a hook).
NewFate(m, st) ==
    [fate EXCEPT ![TypeOf(m)] =
        Append(@, [self |-> m, st |-> st, holder |-> 0, within |-> 0])]

SetFate(t, id, st) == [fate EXCEPT ![t][id].st = st]

\* The push attempt of a deferred call, and the call that held the guard then.
SetPushed(t, id, st, h) == [fate EXCEPT ![t][id].st = st, ![t][id].holder = h]

\* The positions of a caller that won the compare_exchange and has not yet
\* stored false.
HoldingPcs == {"process", "exit", "entry", "commit", "pop", "release"}

\* The positions inside a hook called by dispatch.
HookPcs == {"process", "exit", "entry"}

Holders(t) == {p \in Callers : pc[p] \in HoldingPcs /\ TypeOf(frame[p].self) = t}

\* The id of the dispatch call that holds the guard of type t (0: nobody does).
HolderCall(t) ==
    IF Holders(t) = {} THEN 0 ELSE frame[CHOOSE p \in Holders(t) : TRUE].event.id

\* The init calls completed on machine m.
InitRuns(m) == Len(SelectSeq(trace[m], LAMBDA r : r.id = 0))

InInit(m) == \E q \in Callers : pc[q] = "init_entry" /\ frame[q].self = m

Dispatched(m) == \E i \in 1..Len(fate[TypeOf(m)]) : fate[TypeOf(m)][i].self = m

\* One record of the trace: the step, the state value the hook ran on, the
\* stored state and the context when the step ends, the event handled (0: init),
\* the dispatch call that ran it, and for process the transition it returned.
Step(hook, p, on, tr, c) ==
    [hook |-> hook, on |-> on, stored |-> fsm[frame[p].self], ctx |-> c,
     id |-> frame[p].evt.id, call |-> frame[p].event.id, tr |-> tr]

Logged(p, r) == [trace EXCEPT ![frame[p].self] = Append(@, r)]

\* Mutant: a load followed by a store, not one atomic exchange: a second caller
\* may see the flag still false.
compare_exchange_not_atomic(flag) == flag \in BOOLEAN

\* AtomicBool::compare_exchange(false, true, ..).is_ok()
compare_exchange_ok(flag) == flag = FALSE

\* Mutant: the capacity check is off by one.
push_back_one_more(q, e) ==
    IF Len(q) <= QueueCapacity
    THEN [ok |-> TRUE, q |-> Append(q, e)]
    ELSE [ok |-> FALSE, q |-> q]

\* heapless::Deque::push_back: Err(item) when the deque is full, and then it is unchanged.
push_back(q, e) ==
    IF Len(q) < QueueCapacity
    THEN [ok |-> TRUE, q |-> Append(q, e)]
    ELSE [ok |-> FALSE, q |-> q]

\* Mutant: the newest event is taken, not the oldest (pop_back).
pop_front_newest(q) ==
    IF q = <<>>
    THEN [some |-> FALSE, item |-> NoEvent, q |-> q]
    ELSE [some |-> TRUE, item |-> q[Len(q)], q |-> SubSeq(q, 1, Len(q) - 1)]

\* Mutant: the oldest event is read and left in the deque (front).
pop_front_leaves_item(q) ==
    IF q = <<>>
    THEN [some |-> FALSE, item |-> NoEvent, q |-> q]
    ELSE [some |-> TRUE, item |-> Head(q), q |-> q]

\* heapless::Deque::pop_front: None when the deque is empty.
pop_front(q) ==
    IF q = <<>>
    THEN [some |-> FALSE, item |-> NoEvent, q |-> q]
    ELSE [some |-> TRUE, item |-> Head(q), q |-> Tail(q)]

----------------------------------------------------------------------------
(* init: runs the entry hook of the current state, and nothing else.  It is *)
(* called once, before the event loop: no dispatch call was made on the    *)
(* machine yet.                                                            *)

InitCall(p, m) ==
    /\ pc[p] = "idle"
    /\ ~Dispatched(m)
    /\ ~InInit(m)
    /\ InitRuns(m) = 0
    /\ pc' = [pc EXCEPT ![p] = "init_entry"]
    /\ frame' = [frame EXCEPT ![p] = [IdleFrame EXCEPT !.self = m]]
    /\ UNCHANGED <<dispatch_active, pending_queue, dropped_events, fsm, ctx,
                   debug_assertions, fate, enq_log, trace>>

\* init called on a machine already in use: nothing in init looks at the guard,
\* at the queue or at what was dispatched before.
InitLate(p, m) ==
    /\ pc[p] = "idle"
    /\ Dispatched(m)
    /\ ~InInit(m)
    /\ InitRuns(m) = 0
    /\ pc' = [pc EXCEPT ![p] = "init_entry"]
    /\ frame' = [frame EXCEPT ![p] = [IdleFrame EXCEPT !.self = m]]
    /\ UNCHANGED <<dispatch_active, pending_queue, dropped_events, fsm, ctx,
                   debug_assertions, fate, enq_log, trace>>

\* Mutant: init also puts the statics of the type back to their initial values.
InitEntryResetsStatics(p) ==
    /\ pc[p] = "init_entry"
    /\ LET m == frame[p].self IN
        /\ ctx' = [ctx EXCEPT ![m] = on_entry(fsm[m], ctx[m])]
        /\ trace' = Logged(p, Step("entry", p, fsm[m], TransitionNone, ctx'[m]))
        /\ pending_queue' = [pending_queue EXCEPT ![TypeOf(m)] = <<>>]
    /\ pc' = [pc EXCEPT ![p] = "idle"]
    /\ frame' = [frame EXCEPT ![p] = IdleFrame]
    /\ UNCHANGED <<dispatch_active, dropped_events, fsm,
                   debug_assertions, fate, enq_log>>

InitEntry(p) ==
    /\ pc[p] = "init_entry"
    /\ LET m == frame[p].self IN
        /\ ctx' = [ctx EXCEPT ![m] = on_entry(fsm[m], ctx[m])]
        /\ trace' = Logged(p, Step("entry", p, fsm[m], TransitionNone, ctx'[m]))
    /\ pc' = [pc EXCEPT ![p] = "idle"]
    /\ frame' = [frame EXCEPT ![p] = IdleFrame]
    /\ UNCHANGED <<dispatch_active, pending_queue, dropped_events, fsm,
                   debug_assertions, fate, enq_log>>

----------------------------------------------------------------------------
(* dispatch: the compare_exchange on DISPATCH_ACTIVE decides the path.      *)

\* Mutant: the active dispatch goes straight to the drain loop, the call of
\* do_dispatch_internal(ctx, event) is missing.
DispatchAcquireDrainOnly(p, m, kind) ==
    /\ pc[p] = "idle"
    /\ TotalCalls < MaxCalls
    /\ kind \in EventKinds(TypeOf(m))
    /\ ~InInit(m)
    /\ compare_exchange_ok(dispatch_active[TypeOf(m)])
    /\ dispatch_active' = [dispatch_active EXCEPT ![TypeOf(m)] = TRUE]
    /\ pc' = [pc EXCEPT ![p] = "pop"]
    /\ LET e == [kind |-> kind, id |-> NextId(TypeOf(m))] IN
        frame' = [frame EXCEPT ![p] = [IdleFrame EXCEPT !.self = m, !.event = e, !.evt = e]]
    /\ fate' = NewFate(m, "immediate")
    /\ UNCHANGED <<pending_queue, dropped_events, fsm, ctx, debug_assertions,
                   enq_log, trace>>

\* compare_exchange succeeded: the caller is the active dispatch and is in
\* do_dispatch_internal(ctx, event), inside on_process.
DispatchAcquire(p, m, kind) ==
    /\ pc[p] = "idle"
    /\ TotalCalls < MaxCalls
    /\ kind \in EventKinds(TypeOf(m))
    /\ ~InInit(m)
    /\ compare_exchange_ok(dispatch_active[TypeOf(m)])
    /\ dispatch_active' = [dispatch_active EXCEPT ![TypeOf(m)] = TRUE]
    /\ pc' = [pc EXCEPT ![p] = "process"]
    /\ LET e == [kind |-> kind, id |-> NextId(TypeOf(m))] IN
        frame' = [frame EXCEPT ![p] = [IdleFrame EXCEPT !.self = m, !.event = e, !.evt = e]]
    /\ fate' = NewFate(m, "immediate")
    /\ UNCHANGED <<pending_queue, dropped_events, fsm, ctx, debug_assertions,
                   enq_log, trace>>

\* Mutant: the caller that lost the compare_exchange handles its event itself.
DispatchBusyRunsHooks(p, m, kind) ==
    /\ pc[p] = "idle"
    /\ TotalCalls < MaxCalls
    /\ kind \in EventKinds(TypeOf(m))
    /\ ~InInit(m)
    /\ ~compare_exchange_ok(dispatch_active[TypeOf(m)])
    /\ pc' = [pc EXCEPT ![p] = "process"]
    /\ LET e == [kind |-> kind, id |-> NextId(TypeOf(m))] IN
        frame' = [frame EXCEPT ![p] = [IdleFrame EXCEPT !.self = m, !.event = e, !.evt = e]]
    /\ fate' = NewFate(m, "pushing")
    /\ UNCHANGED <<dispatch_active, pending_queue, dropped_events, fsm, ctx,
                   debug_assertions, enq_log, trace>>

\* Mutant: one guard for all the types: the call is deferred when a dispatch of
\* any type is active.
DispatchBusyOnAnyGuard(p, m, kind) ==
    /\ pc[p] = "idle"
    /\ TotalCalls < MaxCalls
    /\ kind \in EventKinds(TypeOf(m))
    /\ ~InInit(m)
    /\ \E t \in Types : ~compare_exchange_ok(dispatch_active[t])
    /\ pc' = [pc EXCEPT ![p] = "push"]
    /\ LET e == [kind |-> kind, id |-> NextId(TypeOf(m))] IN
        frame' = [frame EXCEPT ![p] = [IdleFrame EXCEPT !.self = m, !.event = e]]
    /\ fate' = NewFate(m, "pushing")
    /\ UNCHANGED <<dispatch_active, pending_queue, dropped_events, fsm, ctx,
                   debug_assertions, enq_log, trace>>

\* compare_exchange failed: a dispatch is active, the caller goes on to enqueue.
DispatchBusy(p, m, kind) ==
    /\ pc[p] = "idle"
    /\ TotalCalls < MaxCalls
    /\ kind \in EventKinds(TypeOf(m))
    /\ ~InInit(m)
    /\ ~compare_exchange_ok(dispatch_active[TypeOf(m)])
    /\ pc' = [pc EXCEPT ![p] = "push"]
    /\ LET e == [kind |-> kind, id |-> NextId(TypeOf(m))] IN
        frame' = [frame EXCEPT ![p] = [IdleFrame EXCEPT !.self = m, !.event = e]]
    /\ fate' = NewFate(m, "pushing")
    /\ UNCHANGED <<dispatch_active, pending_queue, dropped_events, fsm, ctx,
                   debug_assertions, enq_log, trace>>

\* Mutant: both arms of the match run the exit and entry hooks, Transition::None
\* as a move to the current state.
ProcessAlwaysLeaves(p) ==
    /\ pc[p] = "process"
    /\ LET m == frame[p].self
           r == on_process(fsm[m], ctx[m], frame[p].evt.kind)
       IN
        /\ ctx' = [ctx EXCEPT ![m] = r.ctx]
        /\ trace' = Logged(p, Step("process", p, fsm[m], r.tr, r.ctx))
        /\ frame' = [frame EXCEPT ![p].new_state =
                        IF r.tr.to THEN r.tr.new_state ELSE fsm[m]]
        /\ pc' = [pc EXCEPT ![p] = "exit"]
    /\ UNCHANGED <<dispatch_active, pending_queue, dropped_events, fsm,
                   debug_assertions, fate, enq_log>>

\* Mutant: a move to the variant the machine is in only replaces the stored
\* state, without the exit and entry hooks.
ProcessSkipsSelfTransition(p) ==
    /\ pc[p] = "process"
    /\ LET m == frame[p].self
           r == on_process(fsm[m], ctx[m], frame[p].evt.kind)
       IN
        /\ ctx' = [ctx EXCEPT ![m] = r.ctx]
        /\ trace' = Logged(p, Step("process", p, fsm[m], r.tr, r.ctx))
        /\ IF r.tr.to /\ r.tr.new_state.tag # fsm[m].tag
           THEN /\ frame' = [frame EXCEPT ![p].new_state = r.tr.new_state]
                /\ pc' = [pc EXCEPT ![p] = "exit"]
                /\ fsm' = fsm
           ELSE /\ frame' = frame
                /\ pc' = [pc EXCEPT ![p] = "pop"]
                /\ fsm' = [fsm EXCEPT ![m] = IF r.tr.to THEN r.tr.new_state ELSE @]
    /\ UNCHANGED <<dispatch_active, pending_queue, dropped_events,
                   debug_assertions, fate, enq_log>>

\* Mutant: the first dispatch on a machine on which nothing has run yet runs
\* the entry hook of the stored state before process (an implicit init).
ProcessAfterImplicitInit(p) ==
    /\ pc[p] = "process"
    /\ LET m == frame[p].self
           first == trace[m] = <<>>
           c0 == IF first THEN on_entry(fsm[m], ctx[m]) ELSE ctx[m]
           r == on_process(fsm[m], c0, frame[p].evt.kind)
           pre == IF first
                  THEN <<Step("entry", p, fsm[m], TransitionNone, c0)>>
                  ELSE <<>>
       IN
        /\ ctx' = [ctx EXCEPT ![m] = r.ctx]
        /\ trace' = [trace EXCEPT ![m] =
                        @ \o pre \o <<Step("process", p, fsm[m], r.tr, r.ctx)>>]
        /\ IF r.tr.to
           THEN /\ frame' = [frame EXCEPT ![p].new_state = r.tr.new_state]
                /\ pc' = [pc EXCEPT ![p] = "exit"]
           ELSE /\ frame' = frame
                /\ pc' = [pc EXCEPT ![p] = "pop"]
    /\ UNCHANGED <<dispatch_active, pending_queue, dropped_events, fsm,
                   debug_assertions, fate, enq_log>>

\* Mutant: an event taken from the queue is handled by the state that was
\* current when the call that drains the queue began, the state its own event
\* was processed on.
ProcessOnStateOfCall(p) ==
    /\ pc[p] = "process"
    /\ LET m == frame[p].self
           own == SelectSeq(trace[m], LAMBDA x : x.hook = "process"
                                                /\ x.id = frame[p].event.id)
           s0 == IF frame[p].evt.id = frame[p].event.id \/ own = <<>>
                 THEN fsm[m] ELSE own[1].on
           r == on_process(s0, ctx[m], frame[p].evt.kind)
       IN
        /\ ctx' = [ctx EXCEPT ![m] = r.ctx]
        /\ trace' = Logged(p, Step("process", p, s0, r.tr, r.ctx))
        /\ IF r.tr.to
           THEN /\ frame' = [frame EXCEPT ![p].new_state = r.tr.new_state]
                /\ pc' = [pc EXCEPT ![p] = "exit"]
           ELSE /\ frame' = frame
                /\ pc' = [pc EXCEPT ![p] = "pop"]
    /\ UNCHANGED <<dispatch_active, pending_queue, dropped_events, fsm,
                   debug_assertions, fate, enq_log>>

\* do_dispatch_internal: let transition = self.on_process(ctx, event); match transition
Process(p) ==
    /\ pc[p] = "process"
    /\ LET m == frame[p].self
           r == on_process(fsm[m], ctx[m], frame[p].evt.kind)
       IN
        /\ ctx' = [ctx EXCEPT ![m] = r.ctx]
        /\ trace' = Logged(p, Step("process", p, fsm[m], r.tr, r.ctx))
        /\ IF r.tr.to
           THEN /\ frame' = [frame EXCEPT ![p].new_state = r.tr.new_state]
                /\ pc' = [pc EXCEPT ![p] = "exit"]
           ELSE /\ frame' = frame
                /\ pc' = [pc EXCEPT ![p] = "pop"]
    /\ UNCHANGED <<dispatch_active, pending_queue, dropped_events, fsm,
                   debug_assertions, fate, enq_log>>

\* Mutant: the stored state is replaced between exit and entry (exit old,
\* update, entry new).
ExitThenUpdate(p) ==
    /\ pc[p] = "exit"
    /\ LET m == frame[p].self IN
        /\ ctx' = [ctx EXCEPT ![m] = on_exit(fsm[m], ctx[m])]
        /\ trace' = Logged(p, Step("exit", p, fsm[m], TransitionNone, ctx'[m]))
        /\ fsm' = [fsm EXCEPT ![m] = frame[p].new_state]
    /\ pc' = [pc EXCEPT ![p] = "entry"]
    /\ UNCHANGED <<dispatch_active, pending_queue, dropped_events,
                   debug_assertions, frame, fate, enq_log>>

\* Transition::To(new_state): self.on_exit(ctx)
Exit(p) ==
    /\ pc[p] = "exit"
    /\ LET m == frame[p].self IN
        /\ ctx' = [ctx EXCEPT ![m] = on_exit(fsm[m], ctx[m])]
        /\ trace' = Logged(p, Step("exit", p, fsm[m], TransitionNone, ctx'[m]))
    /\ pc' = [pc EXCEPT ![p] = "entry"]
    /\ UNCHANGED <<dispatch_active, pending_queue, dropped_events, fsm,
                   debug_assertions, frame, fate, enq_log>>

\* Mutant: entry runs on the current state, not on the new one.
EntryOnCurrentState(p) ==
    /\ pc[p] = "entry"
    /\ LET m == frame[p].self IN
        /\ ctx' = [ctx EXCEPT ![m] = on_entry(fsm[m], ctx[m])]
        /\ trace' = Logged(p, Step("entry", p, fsm[m], TransitionNone, ctx'[m]))
    /\ pc' = [pc EXCEPT ![p] = "commit"]
    /\ UNCHANGED <<dispatch_active, pending_queue, dropped_events, fsm,
                   debug_assertions, frame, fate, enq_log>>

\* new_state.on_entry(ctx)
Entry(p) ==
    /\ pc[p] = "entry"
    /\ LET m == frame[p].self IN
        /\ ctx' = [ctx EXCEPT ![m] = on_entry(frame[p].new_state, ctx[m])]
        /\ trace' = Logged(p, Step("entry", p, frame[p].new_state, TransitionNone, ctx'[m]))
    /\ pc' = [pc EXCEPT ![p] = "commit"]
    /\ UNCHANGED <<dispatch_active, pending_queue, dropped_events, fsm,
                   debug_assertions, frame, fate, enq_log>>

\* Mutant: the transition ends without the update of the stored state.
CommitKeepsOldState(p) ==
    /\ pc[p] = "commit"
    /\ trace' = Logged(p, Step("commit", p, fsm[frame[p].self], TransitionNone,
                               ctx[frame[p].self]))
    /\ frame' = [frame EXCEPT ![p].new_state = IdleFrame.new_state]
    /\ pc' = [pc EXCEPT ![p] = "pop"]
    /\ UNCHANGED <<dispatch_active, pending_queue, dropped_events, fsm, ctx,
                   debug_assertions, fate, enq_log>>

\* Mutant: the guard is cleared while the panic unwinds (a drop guard around
\* the acquired branch).
HookFaultReleasesGuard(p) ==
    /\ pc[p] \in HookPcs
    /\ dispatch_active' = [dispatch_active EXCEPT ![TypeOf(frame[p].self)] = FALSE]
    /\ pc' = [pc EXCEPT ![p] = "panicked"]
    /\ UNCHANGED <<pending_queue, dropped_events, fsm, ctx,
                   debug_assertions, frame, fate, enq_log, trace>>

\* A hook faults (the user's block panics): the process hook of the current
\* state, or the exit or the entry hook of a move.  The hook's changes to the
\* context made before the fault stay: none or all of them here.  Nothing in
\* do_dispatch_internal or dispatch catches the panic: the rest of the call is
\* not run (no state update, no drain, no store(false)) and the panic goes on
\* into the caller of dispatch.
HookFault(p) ==
    /\ pc[p] \in HookPcs
    /\ LET m == frame[p].self IN
        \E done \in BOOLEAN :
            ctx' = [ctx EXCEPT ![m] =
                       IF ~done THEN @
                       ELSE IF pc[p] = "process"
                            THEN on_process(fsm[m], @, frame[p].evt.kind).ctx
                       ELSE IF pc[p] = "exit" THEN on_exit(fsm[m], @)
                       ELSE on_entry(frame[p].new_state, @)]
    /\ pc' = [pc EXCEPT ![p] = "panicked"]
    /\ UNCHANGED <<dispatch_active, pending_queue, dropped_events, fsm,
                   debug_assertions, frame, fate, enq_log, trace>>

\* *self = new_state
Commit(p) ==
    /\ pc[p] = "commit"
    /\ fsm' = [fsm EXCEPT ![frame[p].self] = frame[p].new_state]
    /\ trace' = Logged(p, [Step("commit", p, frame[p].new_state, TransitionNone,
                                ctx[frame[p].self])
                              EXCEPT !.stored = frame[p].new_state])
    /\ frame' = [frame EXCEPT ![p].new_state = IdleFrame.new_state]
    /\ pc' = [pc EXCEPT ![p] = "pop"]
    /\ UNCHANGED <<dispatch_active, pending_queue, dropped_events, ctx,
                   debug_assertions, fate, enq_log>>

\* Mutant: a blocking dequeue, the holder waits at an empty queue for the next
\* event.
PopWaitsForEvent(p) ==
    /\ pc[p] = "pop"
    /\ LET t == TypeOf(frame[p].self)
           r == pop_front(pending_queue[t])
       IN
        /\ pending_queue' = [pending_queue EXCEPT ![t] = r.q]
        /\ IF r.some
           THEN /\ frame' = [frame EXCEPT ![p].evt = r.item]
                /\ fate' = SetFate(t, r.item.id, "dequeued")
                /\ pc' = [pc EXCEPT ![p] = "process"]
           ELSE /\ frame' = frame
                /\ fate' = fate
                /\ pc' = pc
    /\ UNCHANGED <<dispatch_active, dropped_events, fsm, ctx, debug_assertions,
                   enq_log, trace>>

\* Mutant: a queue entry carries its instance, and the drain loop handles the
\* event on the instance it was submitted through.
PopForSubmitter(p) ==
    /\ pc[p] = "pop"
    /\ LET t == TypeOf(frame[p].self)
           r == pop_front(pending_queue[t])
       IN
        /\ pending_queue' = [pending_queue EXCEPT ![t] = r.q]
        /\ IF r.some
           THEN /\ frame' = [frame EXCEPT ![p].evt = r.item,
                                          ![p].self = fate[t][r.item.id].self]
                /\ fate' = SetFate(t, r.item.id, "dequeued")
                /\ pc' = [pc EXCEPT ![p] = "process"]
           ELSE /\ frame' = frame
                /\ fate' = fate
                /\ pc' = [pc EXCEPT ![p] = "release"]
    /\ UNCHANGED <<dispatch_active, dropped_events, fsm, ctx, debug_assertions,
                   enq_log, trace>>

\* The drain loop: pop_front in a critical section; Some(evt) goes to
\* do_dispatch_internal(ctx, &evt), None breaks out of the loop.
Pop(p) ==
    /\ pc[p] = "pop"
    /\ LET t == TypeOf(frame[p].self)
           r == pop_front(pending_queue[t])
       IN
        /\ pending_queue' = [pending_queue EXCEPT ![t] = r.q]
        /\ IF r.some
           THEN /\ frame' = [frame EXCEPT ![p].evt = r.item]
                /\ fate' = SetFate(t, r.item.id, "dequeued")
                /\ pc' = [pc EXCEPT ![p] = "process"]
           ELSE /\ frame' = frame
                /\ fate' = fate
                /\ pc' = [pc EXCEPT ![p] = "release"]
    /\ UNCHANGED <<dispatch_active, dropped_events, fsm, ctx, debug_assertions,
                   enq_log, trace>>

\* Mutant: dispatch returns without storing false.
ReleaseKeepsGuard(p) ==
    /\ pc[p] = "release"
    /\ pc' = [pc EXCEPT ![p] = "idle"]
    /\ frame' = [frame EXCEPT ![p] = IdleFrame]
    /\ UNCHANGED <<dispatch_active, pending_queue, dropped_events, fsm, ctx,
                   debug_assertions, fate, enq_log, trace>>

\* Mutant: the holder looks at the queue once more before it stores false and
\* goes back to the drain loop when an event has arrived.
ReleaseDrainsLeftovers(p) ==
    /\ pc[p] = "release"
    /\ IF pending_queue[TypeOf(frame[p].self)] # <<>>
       THEN /\ pc' = [pc EXCEPT ![p] = "pop"]
            /\ UNCHANGED <<dispatch_active, frame>>
       ELSE /\ dispatch_active' = [dispatch_active EXCEPT ![TypeOf(frame[p].self)] = FALSE]
            /\ pc' = [pc EXCEPT ![p] = "idle"]
            /\ frame' = [frame EXCEPT ![p] = IdleFrame]
    /\ UNCHANGED <<pending_queue, dropped_events, fsm, ctx, debug_assertions,
                   fate, enq_log, trace>>

\* DISPATCH_ACTIVE.store(false, Ordering::Release), and dispatch returns
Release(p) ==
    /\ pc[p] = "release"
    /\ dispatch_active' = [dispatch_active EXCEPT ![TypeOf(frame[p].self)] = FALSE]
    /\ pc' = [pc EXCEPT ![p] = "idle"]
    /\ frame' = [frame EXCEPT ![p] = IdleFrame]
    /\ UNCHANGED <<pending_queue, dropped_events, fsm, ctx, debug_assertions,
                   fate, enq_log, trace>>

\* Mutant: the deferred caller pushes only once the active dispatch is over.
PushWaitsForGuard(p) ==
    /\ pc[p] = "push"
    /\ ~dispatch_active[TypeOf(frame[p].self)]
    /\ LET t == TypeOf(frame[p].self)
           r == push_back(pending_queue[t], frame[p].event)
       IN
        /\ pending_queue' = [pending_queue EXCEPT ![t] = r.q]
        /\ IF r.ok
           THEN /\ fate' = SetPushed(t, frame[p].event.id, "queued", HolderCall(t))
                /\ enq_log' = [enq_log EXCEPT ![t] = Append(@, frame[p].event.id)]
                /\ pc' = [pc EXCEPT ![p] = "idle"]
                /\ frame' = [frame EXCEPT ![p] = IdleFrame]
           ELSE /\ fate' = SetPushed(t, frame[p].event.id, "rejected", HolderCall(t))
                /\ enq_log' = enq_log
                /\ pc' = [pc EXCEPT ![p] = "overflow"]
                /\ frame' = frame
    /\ UNCHANGED <<dispatch_active, dropped_events, fsm, ctx, debug_assertions, trace>>

\* Mutant: the counter is raised for every deferred event, enqueued or not.
PushCountsEveryEvent(p) ==
    /\ pc[p] = "push"
    /\ LET t == TypeOf(frame[p].self)
           r == push_back(pending_queue[t], frame[p].event)
       IN
        /\ pending_queue' = [pending_queue EXCEPT ![t] = r.q]
        /\ dropped_events' = [dropped_events EXCEPT ![t] = @ + 1]
        /\ IF r.ok
           THEN /\ fate' = SetPushed(t, frame[p].event.id, "queued", HolderCall(t))
                /\ enq_log' = [enq_log EXCEPT ![t] = Append(@, frame[p].event.id)]
                /\ pc' = [pc EXCEPT ![p] = "idle"]
                /\ frame' = [frame EXCEPT ![p] = IdleFrame]
           ELSE /\ fate' = SetPushed(t, frame[p].event.id, "dropped", HolderCall(t))
                /\ enq_log' = enq_log
                /\ pc' = [pc EXCEPT ![p] = IF debug_assertions THEN "panicked" ELSE "idle"]
                /\ frame' = [frame EXCEPT ![p] = IdleFrame]
    /\ UNCHANGED <<dispatch_active, fsm, ctx, debug_assertions, trace>>

\* The deferred path: push_back(event.clone()) in a critical section; dispatch
\* returns when the push succeeded.
Push(p) ==
    /\ pc[p] = "push"
    /\ LET t == TypeOf(frame[p].self)
           r == push_back(pending_queue[t], frame[p].event)
       IN
        /\ pending_queue' = [pending_queue EXCEPT ![t] = r.q]
        /\ IF r.ok
           THEN /\ fate' = SetPushed(t, frame[p].event.id, "queued", HolderCall(t))
                /\ enq_log' = [enq_log EXCEPT ![t] = Append(@, frame[p].event.id)]
                /\ pc' = [pc EXCEPT ![p] = "idle"]
                /\ frame' = [frame EXCEPT ![p] = IdleFrame]
           ELSE /\ fate' = SetPushed(t, frame[p].event.id, "rejected", HolderCall(t))
                /\ enq_log' = enq_log
                /\ pc' = [pc EXCEPT ![p] = "overflow"]
                /\ frame' = frame
    /\ UNCHANGED <<dispatch_active, dropped_events, fsm, ctx, debug_assertions, trace>>

\* Mutant: the counter is raised by two (fetch_add(2)).
OverflowCountsTwice(p) ==
    /\ pc[p] = "overflow"
    /\ LET t == TypeOf(frame[p].self) IN
        /\ dropped_events' = [dropped_events EXCEPT ![t] = @ + 2]
        /\ fate' = SetFate(t, frame[p].event.id,
                     IF fate[t][frame[p].event.id].st = "stale" THEN "late" ELSE "dropped")
    /\ pc' = [pc EXCEPT ![p] = IF debug_assertions THEN "panicked" ELSE "idle"]
    /\ frame' = [frame EXCEPT ![p] = IdleFrame]
    /\ UNCHANGED <<dispatch_active, pending_queue, fsm, ctx, debug_assertions,
                   enq_log, trace>>

\* Mutant: the panic! is compiled into every build.
OverflowPanics(p) ==
    /\ pc[p] = "overflow"
    /\ LET t == TypeOf(frame[p].self) IN
        /\ dropped_events' = [dropped_events EXCEPT ![t] = @ + 1]
        /\ fate' = SetFate(t, frame[p].event.id, "dropped")
    /\ pc' = [pc EXCEPT ![p] = "panicked"]
    /\ frame' = [frame EXCEPT ![p] = IdleFrame]
    /\ UNCHANGED <<dispatch_active, pending_queue, fsm, ctx, debug_assertions,
                   enq_log, trace>>

\* Mutant: the overflow path also stores false to the guard.
OverflowReleasesGuard(p) ==
    /\ pc[p] = "overflow"
    /\ LET t == TypeOf(frame[p].self) IN
        /\ dropped_events' = [dropped_events EXCEPT ![t] = @ + 1]
        /\ dispatch_active' = [dispatch_active EXCEPT ![t] = FALSE]
        /\ fate' = SetFate(t, frame[p].event.id,
                     IF fate[t][frame[p].event.id].st = "stale" THEN "late" ELSE "dropped")
    /\ pc' = [pc EXCEPT ![p] = IF debug_assertions THEN "panicked" ELSE "idle"]
    /\ frame' = [frame EXCEPT ![p] = IdleFrame]
    /\ UNCHANGED <<pending_queue, fsm, ctx, debug_assertions, enq_log, trace>>

\* enqueue_result.is_err(): DROPPED_EVENTS.fetch_add(1), then panic! under
\* cfg(debug_assertions), a plain return otherwise.
Overflow(p) ==
    /\ pc[p] = "overflow"
    /\ LET t == TypeOf(frame[p].self) IN
        /\ dropped_events' = [dropped_events EXCEPT ![t] = @ + 1]
        /\ fate' = SetFate(t, frame[p].event.id,
                     IF fate[t][frame[p].event.id].st = "stale" THEN "late" ELSE "dropped")
    /\ pc' = [pc EXCEPT ![p] = IF debug_assertions THEN "panicked" ELSE "idle"]
    /\ frame' = [frame EXCEPT ![p] = IdleFrame]
    /\ UNCHANGED <<dispatch_active, pending_queue, fsm, ctx, debug_assertions,
                   enq_log, trace>>

----------------------------------------------------------------------------
(* A dispatch call made while the caller itself is inside a hook of a       *)
(* dispatch that holds the guard: the hook body calls dispatch, or an       *)
(* interrupt handler that calls dispatch preempts it.  The nested call runs *)
(* to its end before the hook goes on, and its compare_exchange fails, the  *)
(* flag being set by the caller itself; so it is one step: the push_back    *)
(* and, if that fails, the fetch_add and the panic! or the return.  A panic *)
(* unwinds through the hook and the outer dispatch: the store(false) of the *)
(* outer call is never reached.                                             *)

\* The record of a dispatch call made from inside a hook of call c while that
\* handles event j.
NestedFate(m, st, c, j) ==
    [fate EXCEPT ![TypeOf(m)] =
        Append(@, [self |-> m, st |-> st, holder |-> c, within |-> j])]

\* Mutant: the nested call handles its event itself, inside the hook.
RecursiveDispatchInline(p, kind) ==
    /\ pc[p] \in HookPcs
    /\ TotalCalls < MaxCalls
    /\ LET m == frame[p].self
           t == TypeOf(m)
           e == [kind |-> kind, id |-> NextId(t)]
           r == on_process(fsm[m], ctx[m], kind)
       IN
        /\ kind \in EventKinds(t)
        /\ ctx' = [ctx EXCEPT ![m] = r.ctx]
        /\ trace' = [trace EXCEPT ![m] =
                Append(@, [hook |-> "process", on |-> fsm[m], stored |-> fsm[m],
                           ctx |-> r.ctx, id |-> e.id, call |-> e.id, tr |-> r.tr])]
        /\ fate' = NestedFate(m, "immediate", frame[p].event.id, frame[p].evt.id)
    /\ UNCHANGED <<dispatch_active, pending_queue, dropped_events, fsm,
                   debug_assertions, pc, frame, enq_log>>

RecursiveDispatch(p, kind) ==
    /\ pc[p] \in HookPcs
    /\ TotalCalls < MaxCalls
    /\ LET m == frame[p].self
           t == TypeOf(m)
           e == [kind |-> kind, id |-> NextId(t)]
           r == push_back(pending_queue[t], e)
       IN
        /\ kind \in EventKinds(t)
        /\ ~compare_exchange_ok(dispatch_active[t])
        /\ pending_queue' = [pending_queue EXCEPT ![t] = r.q]
        /\ IF r.ok
           THEN /\ fate' = NestedFate(m, "queued", frame[p].event.id, frame[p].evt.id)
                /\ enq_log' = [enq_log EXCEPT ![t] = Append(@, e.id)]
                /\ dropped_events' = dropped_events
                /\ pc' = pc
           ELSE /\ fate' = NestedFate(m, "dropped", frame[p].event.id, frame[p].evt.id)
                /\ enq_log' = enq_log
                /\ dropped_events' = [dropped_events EXCEPT ![t] = @ + 1]
                /\ pc' = IF debug_assertions THEN [pc EXCEPT ![p] = "panicked"] ELSE pc
    /\ UNCHANGED <<dispatch_active, fsm, ctx, debug_assertions, frame, trace>>

----------------------------------------------------------------------------
(* The drop counter's accessors: associated functions of the type, callable *)
(* from any thread at any time.                                             *)

\* DROPPED_EVENTS.load(Ordering::Relaxed)
dropped_events_count(t) == dropped_events[t]

\* What a reset makes of the history of an event: a counted drop is cleared
\* from the counter; a rejection not yet counted ("rejected") will be counted
\* after the reset ("stale", then "late").
AfterReset(st) ==
    CASE st \in {"dropped", "late"} -> "cleared"
      [] st = "rejected" -> "stale"
      [] OTHER -> st

\* Mutant: the reset also empties the queue of the type.
reset_dropped_count_and_queue(p, t) ==
    /\ pc[p] = "idle"
    /\ dropped_events' = [dropped_events EXCEPT ![t] = 0]
    /\ pending_queue' = [pending_queue EXCEPT ![t] = <<>>]
    /\ fate' = [fate EXCEPT ![t] = [i \in 1..Len(@) |-> [@[i] EXCEPT !.st = AfterReset(@)]]]
    /\ UNCHANGED <<dispatch_active, fsm, ctx, debug_assertions,
                   pc, frame, enq_log, trace>>

\* DROPPED_EVENTS.store(0, Ordering::Relaxed)
reset_dropped_count(p, t) ==
    /\ pc[p] = "idle"
    /\ dropped_events' = [dropped_events EXCEPT ![t] = 0]
    /\ fate' = [fate EXCEPT ![t] = [i \in 1..Len(@) |-> [@[i] EXCEPT !.st = AfterReset(@)]]]
    /\ UNCHANGED <<dispatch_active, pending_queue, fsm, ctx, debug_assertions,
                   pc, frame, enq_log, trace>>

----------------------------------------------------------------------------
(* Specifications *)

\* The steps of a caller inside init or dispatch.
Run(p) ==
    \/ InitEntry(p)
    \/ Process(p)
    \/ Exit(p)
    \/ Entry(p)
    \/ Commit(p)
    \/ Pop(p)
    \/ Release(p)
    \/ Push(p)
    \/ Overflow(p)

\* The program has not touched machine m: no init and no dispatch on it.
Fresh(m) == trace[m] = <<>> /\ ~Dispatched(m) /\ ~InInit(m)

\* The program drives one machine: every other machine is untouched.
Alone(m) == \A other \in Machines \ {m} : Fresh(other)

\* Spec: a program of two callers that drives one machine, an instance of
\* SlowFSM or an instance of SelfTransitionFSM.
Next ==
    \E p \in Callers :
        \/ \E m \in Contended : Alone(m) /\ InitCall(p, m)
        \/ \E m \in Contended : \E kind \in EventKinds(TypeOf(m)) :
                Alone(m) /\ DispatchAcquire(p, m, kind)
        \/ \E m \in Contended : \E kind \in EventKinds(TypeOf(m)) :
                Alone(m) /\ DispatchBusy(p, m, kind)
        \/ Run(p)

Spec == Init /\ [][Next]_vars

\* SpecDeferred: Spec, where a caller on the deferred path keeps running.  The
\* holder of the guard is given no fairness: it may stay in a hook for ever.
SpecDeferred ==
    Spec /\ \A p \in Callers : WF_vars(Push(p)) /\ WF_vars(Overflow(p))

\* SpecFair: Spec, where every caller that is inside init or dispatch keeps
\* running (the code of both is free of waits).  No fairness is given to the
\* making of new calls: the program may stop calling dispatch at any time.
SpecFair == Spec /\ \A p \in Callers : WF_vars(Run(p))

\* The event each producer submits: one source, one kind of event (as the
\* timer interrupt and the main loop of the documented ISR pattern).
ProducerEvent(p) == IF p = "t1" THEN "Increment" ELSE "Switch"

\* SpecProducers: two producers drive one instance of SlowFSM, each calls
\* dispatch sequentially with events of its own kind.
NextProducers ==
    \E p \in Callers :
        \/ InitCall(p, "x1")
        \/ DispatchAcquire(p, "x1", ProducerEvent(p))
        \/ DispatchBusy(p, "x1", ProducerEvent(p))
        \/ Run(p)

SpecProducers == Init /\ [][NextProducers]_vars

\* SpecReset: Spec, where a caller that is in no call may also reset the drop
\* counter of a type.
NextReset ==
    \/ Next
    \/ \E p \in Callers : \E t \in Types : reset_dropped_count(p, t)

SpecReset == Init /\ [][NextReset]_vars

\* SpecRecursive: two callers drive one instance of SlowFSM, and a caller
\* inside a hook may call dispatch on that instance.
NextRecursive ==
    \E p \in Callers :
        \/ \E kind \in EventKinds("SlowFSM") : DispatchAcquire(p, "x1", kind)
        \/ \E kind \in EventKinds("SlowFSM") : DispatchBusy(p, "x1", kind)
        \/ \E kind \in EventKinds("SlowFSM") : RecursiveDispatch(p, kind)
        \/ Process(p)
        \/ Exit(p)
        \/ Entry(p)
        \/ Commit(p)
        \/ Pop(p)
        \/ Release(p)
        \/ Push(p)
        \/ Overflow(p)

SpecRecursive == Init /\ [][NextRecursive]_vars

\* SpecIncrement: after init the callers submit MaxCalls Increment events in
\* all to one instance of SlowFSM, with no lock around the dispatch calls.
\* Increment never moves, so exit, entry and the state update do not occur.
NextIncrement ==
    \E p \in Callers :
        \/ InitCall(p, "x1")
        \/ InitEntry(p)
        \/ DispatchAcquire(p, "x1", "Increment")
        \/ DispatchBusy(p, "x1", "Increment")
        \/ Process(p)
        \/ Pop(p)
        \/ Release(p)
        \/ Push(p)
        \/ Overflow(p)

SpecIncrement == Init /\ [][NextIncrement]_vars

\* SpecInit: two callers drive one instance of SlowFSM and call init on it at
\* any time, before the first dispatch or after it.
NextInit ==
    \E p \in Callers :
        \/ InitCall(p, "x1")
        \/ InitLate(p, "x1")
        \/ \E kind \in EventKinds("SlowFSM") : DispatchAcquire(p, "x1", kind)
        \/ \E kind \in EventKinds("SlowFSM") : DispatchBusy(p, "x1", kind)
        \/ Run(p)

SpecInit == Init /\ [][NextInit]_vars

\* The lock the program puts around every call (Arc<Mutex<..>> around the
\* machine and its context, held from before the call until after it returns)
\* is free when no caller is inside init or dispatch.
ExternalLockFree == \A q \in Callers : pc[q] = "idle"

\* The entry of dispatch: one compare_exchange, whose result selects the path.
dispatch(p, m, kind) ==
    IF compare_exchange_ok(dispatch_active[TypeOf(m)])
    THEN DispatchAcquire(p, m, kind)
    ELSE DispatchBusy(p, m, kind)

\* The next step of the caller that is inside init or dispatch, by its position.
RunLocked(p) ==
    CASE pc[p] = "init_entry" -> InitEntry(p)
      [] pc[p] = "process"    -> Process(p)
      [] pc[p] = "exit"       -> Exit(p)
      [] pc[p] = "entry"      -> Entry(p)
      [] pc[p] = "commit"     -> Commit(p)
      [] pc[p] = "pop"        -> Pop(p)
      [] pc[p] = "release"    -> Release(p)
      [] pc[p] = "push"       -> Push(p)
      [] pc[p] = "overflow"   -> Overflow(p)
      [] OTHER                -> FALSE

\* SpecSerial: Spec, where the callers take the external lock for each call,
\* so that a call starts only when no other call is in progress.
NextSerial ==
    \E p \in Callers :
        \/ \E m \in Contended : Alone(m) /\ ExternalLockFree /\ InitCall(p, m)
        \/ \E m \in Contended : \E kind \in EventKinds(TypeOf(m)) :
                Alone(m) /\ ExternalLockFree /\ dispatch(p, m, kind)
        \/ RunLocked(p)

SpecSerial == Init /\ [][NextSerial]_vars

\* SpecTypes: the callers drive an instance of SlowFSM and an instance of
\* BlinkFSM at the same time: a dispatch on one type may start while a dispatch
\* on the other is anywhere in its course (the interleavings in which the
\* second call starts and ends while the first is inside one hook are those of
\* a hook that delegates to a machine of another type).
NextTypes ==
    \E p \in Callers :
        \/ \E m \in {"x1", "b1"} : \E kind \in EventKinds(TypeOf(m)) :
                DispatchAcquire(p, m, kind)
        \/ \E m \in {"x1", "b1"} : \E kind \in EventKinds(TypeOf(m)) :
                DispatchBusy(p, m, kind)
        \/ Process(p)
        \/ Exit(p)
        \/ Entry(p)
        \/ Commit(p)
        \/ Pop(p)
        \/ Release(p)
        \/ Push(p)
        \/ Overflow(p)

SpecTypes == Init /\ [][NextTypes]_vars

\* SpecInstances: two threads, each with its own instance of SlowFSM (t1 owns
\* x1, t2 owns x2), call dispatch on their instances at any time.
Owns(p) == IF p = "t1" THEN "x1" ELSE "x2"

NextInstances ==
    \E p \in Callers :
        \/ \E kind \in EventKinds("SlowFSM") : DispatchAcquire(p, Owns(p), kind)
        \/ \E kind \in EventKinds("SlowFSM") : DispatchBusy(p, Owns(p), kind)
        \/ Process(p)
        \/ Exit(p)
        \/ Entry(p)
        \/ Commit(p)
        \/ Pop(p)
        \/ Release(p)
        \/ Push(p)
        \/ Overflow(p)

SpecInstances == Init /\ [][NextInstances]_vars

\* SpecFault: two callers drive one instance of SlowFSM whose process, exit and entry
\* hooks may fault.
NextFault ==
    \E p \in Callers :
        \/ \E kind \in EventKinds("SlowFSM") : DispatchAcquire(p, "x1", kind)
        \/ \E kind \in EventKinds("SlowFSM") : DispatchBusy(p, "x1", kind)
        \/ HookFault(p)
        \/ Process(p)
        \/ Exit(p)
        \/ Entry(p)
        \/ Commit(p)
        \/ Pop(p)
        \/ Release(p)
        \/ Push(p)
        \/ Overflow(p)

SpecFault == Init /\ [][NextFault]_vars

\* SpecBlink: one thread drives the instance of BlinkFSM: init (or, by
\* mistake, no init), then Tick after Tick.
NextBlink ==
    \/ InitCall("t1", "b1")
    \/ dispatch("t1", "b1", "Tick")
    \/ RunLocked("t1")

SpecBlink == Init /\ [][NextBlink]_vars

----------------------------------------------------------------------------
(* Vocabulary of the properties *)

CallIds(t) == 1..Len(fate[t])

\* The dispatch call with id i of type t is over: no caller is in it.
Returned(t, i) ==
    \A p \in Callers : ~(TypeOf(frame[p].self) = t /\ frame[p].event.id = i)

\* All callers are outside init and dispatch.
Quiescent == \A p \in Callers : pc[p] \in {"idle", "panicked"}

Count(t, st) == Cardinality({i \in CallIds(t) : fate[t][i].st = st})

\* The process hook runs made by the dispatch call with id c on machine m, in order.
ProcessedIn(m, c) == SelectSeq(trace[m], LAMBDA r : r.hook = "process" /\ r.call = c)

\* The deferred calls whose push was accepted / rejected while call c held the guard.
Accepted(t, c) ==
    {i \in CallIds(t) : fate[t][i].holder = c /\ fate[t][i].st \in {"queued", "dequeued"}}

Rejected(t, c) ==
    {i \in CallIds(t) : fate[t][i].holder = c /\ fate[t][i].st \in {"rejected", "dropped"}}

\* Caller p holds the guard and has taken nothing from the queue so far.
HoldsUndrained(p) == pc[p] \in HoldingPcs /\ frame[p].evt.id = frame[p].event.id

----------------------------------------------------------------------------
(* C1 - mutual exclusion *)

\* C1: in every reachable state at most one caller holds the dispatch guard of
\* a type, and at most one caller is inside a hook (process, exit, entry) run
\* by dispatch for that type.
C1_MutualExclusion ==
    \A t \in Types :
        /\ Cardinality(Holders(t)) <= 1
        /\ Cardinality({p \in Callers :
                            pc[p] \in HookPcs /\ TypeOf(frame[p].self) = t}) <= 1

\* Two dispatch calls overlap: one is inside a hook, the other lost the
\* compare_exchange and is about to push.
C1_Witness ==
    \E p, q \in Callers : pc[p] \in HookPcs /\ pc[q] = "push"

----------------------------------------------------------------------------
(* C2 - the order of one transition *)

----------------------------------------------------------------------------
(* C3 - Transition::None *)

\* The context before step i of a machine's trace.
CtxBefore(m, i) == IF i = 1 THEN InitialContext(m) ELSE trace[m][i - 1].ctx

\* The hook counters of a context: entries and exits (SlowFSM), resets
\* (SelfTransitionFSM, counted by entry), ticks (BlinkFSM, counted by entry).
HookCounters(m, c) ==
    CASE TypeOf(m) = "SlowFSM"  -> <<c.entry_count, c.exit_count>>
      [] TypeOf(m) = "BlinkFSM" -> <<c.tick_count>>
      [] OTHER                  -> <<c.reset_count>>

\* C3: on every machine a process run that returned Transition::None is
\* followed by no exit and no entry: the next step of the machine is the
\* process run of another event, the stored state (variant and payload) is
\* then still the same, and the counters kept by the entry and exit hooks are
\* those from before the event.
C3_StayRunsNoHook ==
    \A m \in Machines :
        LET s == trace[m] IN
            \A i \in 1..Len(s) :
                (s[i].hook = "process" /\ ~s[i].tr.to) =>
                    /\ HookCounters(m, s[i].ctx) = HookCounters(m, CtxBefore(m, i))
                    /\ i < Len(s) =>
                          /\ s[i + 1].hook = "process" /\ s[i + 1].id # s[i].id
                          /\ s[i + 1].stored = s[i].stored
                    /\ i = Len(s) =>
                          /\ fsm[m] = s[i].stored
                          /\ HookCounters(m, ctx[m]) = HookCounters(m, s[i].ctx)
                          /\ \A p \in Callers :
                                frame[p].self = m => pc[p] \notin {"exit", "entry", "commit"}

\* A machine whose state carries a payload stayed on an event, which a holder
\* took from the queue, and then handled another event.
C3_Witness ==
    \E i \in 1..Len(trace["r1"]) :
        /\ trace["r1"][i].hook = "process" /\ ~trace["r1"][i].tr.to
        /\ trace["r1"][i].stored = [tag |-> "Running", iteration |-> 5]
        /\ trace["r1"][i].id # trace["r1"][i].call
        /\ i < Len(trace["r1"])

----------------------------------------------------------------------------
(* C4 - one exit and one entry per Transition::To *)

NumberOf(m, hook) == Len(SelectSeq(trace[m], LAMBDA r : r.hook = hook))

NumberOfMoves(m) ==
    Len(SelectSeq(trace[m], LAMBDA r : r.hook = "process" /\ r.tr.to))

\* The exit / entry run that a move in progress on machine m has still to make.
ExitToCome(m) ==
    Cardinality({p \in Callers : frame[p].self = m /\ pc[p] = "exit"})

EntryToCome(m) ==
    Cardinality({p \in Callers : frame[p].self = m /\ pc[p] \in {"exit", "entry"}})

\* C4: on every machine the exit runs, plus the one a move in progress has
\* still to make, are as many as the process runs that returned Transition::To,
\* and the entry runs are as many as those plus the init calls; every such
\* process run is followed by exit on the stored state and entry on the state
\* it returned, also when both are the same variant; and the counters kept by
\* the hooks themselves agree.
C4_OneExitOneEntryPerMove ==
    \A m \in Machines :
        LET s == trace[m] IN
            /\ NumberOf(m, "exit") + ExitToCome(m) = NumberOfMoves(m)
            /\ NumberOf(m, "entry") + EntryToCome(m) = NumberOfMoves(m) + InitRuns(m)
            /\ \A i \in 1..Len(s) :
                (s[i].hook = "process" /\ s[i].tr.to) =>
                    /\ i + 1 <= Len(s) =>
                          s[i + 1].hook = "exit" /\ s[i + 1].on = s[i].stored
                    /\ i + 2 <= Len(s) =>
                          s[i + 2].hook = "entry" /\ s[i + 2].on = s[i].tr.new_state
            /\ HookCounters(m, ctx[m]) =
                  IF TypeOf(m) = "SlowFSM"
                  THEN <<NumberOf(m, "entry"), NumberOf(m, "exit")>>
                  ELSE <<NumberOf(m, "entry")>>

\* After init, a machine moved to the variant it was in: exit, entry and the
\* update ran for that event, and entry has run twice.
C4_Witness ==
    /\ InitRuns("r1") = 1
    /\ \E i \in 1..Len(trace["r1"]) :
          /\ trace["r1"][i].hook = "process" /\ trace["r1"][i].tr.to
          /\ trace["r1"][i].tr.new_state.tag = trace["r1"][i].stored.tag
          /\ i + 3 <= Len(trace["r1"])
    /\ ctx["r1"].reset_count = 2

----------------------------------------------------------------------------
(* C5 - a call that finds the guard free applies its event before it returns *)

\* C5: when a dispatch call that acquired the guard has returned, the process
\* hook has run for its own event in that call, and if the hook moved, exit,
\* entry and the update of the stored state have been done for it as well.
C5_ImmediateIsSynchronous ==
    \A t \in Types : \A i \in CallIds(t) :
        (fate[t][i].st = "immediate" /\ Returned(t, i)) =>
            LET s == trace[fate[t][i].self] IN
                \E j \in 1..Len(s) :
                    /\ s[j].hook = "process" /\ s[j].id = i /\ s[j].call = i
                    /\ s[j].tr.to =>
                        /\ j + 3 <= Len(s)
                        /\ s[j + 3].hook = "commit" /\ s[j + 3].id = i
                        /\ s[j + 3].call = i
                        /\ s[j + 3].stored = s[j].tr.new_state

\* A call that acquired the guard has returned after moving the machine.
C5_Witness ==
    \E t \in Types : \E i \in CallIds(t) :
        /\ fate[t][i].st = "immediate" /\ Returned(t, i)
        /\ \E j \in 1..Len(trace[fate[t][i].self]) :
                LET r == trace[fate[t][i].self][j] IN
                    r.hook = "process" /\ r.id = i /\ r.tr.to

----------------------------------------------------------------------------
(* C6 - the deferred path never waits *)

\* The dispatch calls of type t that lost the compare_exchange.
Deferred(t) == {i \in CallIds(t) : fate[t][i].st # "immediate"}

\* The number of times id i was put into the queue of type t.
Enqueues(t, i) == Len(SelectSeq(enq_log[t], LAMBDA x : x = i))

\* One push attempt per deferred call, and its outcome: a call still before
\* its push has put nothing into the queue, a call whose push was accepted has
\* put its event there once and is over, a call whose push was rejected has put
\* nothing there and counts a drop before it ends, and every drop counted is
\* one such call.
OnePushAttempt ==
    \A t \in Types :
        /\ \A i \in Deferred(t) :
              /\ fate[t][i].st = "pushing" =>
                    /\ Enqueues(t, i) = 0
                    /\ \E p \in Callers : pc[p] = "push" /\ frame[p].event.id = i
              /\ fate[t][i].st \in {"queued", "dequeued"} =>
                    Enqueues(t, i) = 1 /\ Returned(t, i)
              /\ fate[t][i].st = "rejected" =>
                    /\ Enqueues(t, i) = 0
                    /\ \E p \in Callers : pc[p] = "overflow" /\ frame[p].event.id = i
              /\ fate[t][i].st = "dropped" =>
                    Enqueues(t, i) = 0 /\ Returned(t, i)
        /\ dropped_events[t] = Count(t, "dropped")

----------------------------------------------------------------------------
(* C7 - order inside one guard-holding call *)

\* C7: the events processed by one guard-holding dispatch call are its own
\* event first, then events taken from the queue, and these in the order of
\* their pushes (a contiguous run of the push order); the call handles no
\* queued event before its own.
C7_ImmediateThenFifo ==
    /\ \A t \in Types : \A c \in CallIds(t) :
        LET s == ProcessedIn(fate[t][c].self, c) IN
            s # <<>> =>
                /\ s[1].id = c
                /\ \E k \in 0..Len(enq_log[t]) :
                      \A j \in 2..Len(s) :
                          /\ k + j - 1 <= Len(enq_log[t])
                          /\ enq_log[t][k + j - 1] = s[j].id
    /\ \A p \in Callers :
        (pc[p] \in HoldingPcs /\ ~HoldsUndrained(p)) =>
            ProcessedIn(frame[p].self, frame[p].event.id) # <<>>

\* One call has processed its own event and two events from the queue.
C7_Witness ==
    \E t \in Types : \E c \in CallIds(t) :
        Len(ProcessedIn(fate[t][c].self, c)) >= 3

----------------------------------------------------------------------------
(* C8 - events enqueued while A holds the guard *)

\* C8 (as claimed): if three events were pushed, in that order, while the
\* dispatch call c held the guard, then once c has returned it has processed
\* the three, in that order.
C8_HolderProcessesEnqueued ==
    \A t \in Types : \A a, b, d \in 1..Len(enq_log[t]) :
        LET e1 == enq_log[t][a]
            e2 == enq_log[t][b]
            e3 == enq_log[t][d]
            c == fate[t][e1].holder
        IN
            (/\ a < b /\ b < d
             /\ c # 0 /\ fate[t][e2].holder = c /\ fate[t][e3].holder = c
             /\ Returned(t, c)) =>
                LET s == ProcessedIn(fate[t][c].self, c) IN
                    \E x, y, z \in 1..Len(s) :
                        /\ x < y /\ y < z
                        /\ s[x].id = e1 /\ s[y].id = e2 /\ s[z].id = e3

----------------------------------------------------------------------------
(* C9 - accounting of submitted events *)

\* C9 (as claimed): at the end of a run, when every dispatch call is over,
\* the events taken as immediate events, plus the events dequeued, plus
\* dropped_events_count() make up the events submitted.
C9_NoLossAccounting ==
    \A t \in Types :
        Quiescent =>
            Count(t, "immediate") + Count(t, "dequeued") + dropped_events[t]
                = Len(fate[t])

----------------------------------------------------------------------------
(* C10 - the capacity boundary *)

----------------------------------------------------------------------------
(* C11 - an accepted event is processed *)

\* Event i of type t has had its process hook run.
Processed(t, i) ==
    \E m \in Machines :
        /\ TypeOf(m) = t
        /\ \E k \in 1..Len(trace[m]) : trace[m][k].hook = "process" /\ trace[m][k].id = i

\* C11 (as claimed): every event that dispatch accepted, as the immediate event
\* of a call that acquired the guard or by a successful push, has its process
\* hook run in the end, when the calls in progress run on and no further call
\* need be made.
C11_AcceptedIsProcessed ==
    \A t \in Types : \A i \in 1..MaxCalls :
        (i \in CallIds(t) /\ fate[t][i].st \in {"immediate", "queued", "dequeued"})
            ~> Processed(t, i)

----------------------------------------------------------------------------
(* C12 - the release of the guard *)

\* Caller p is in a dispatch call on type t that won the compare_exchange.
Acquired(p, t) ==
    /\ TypeOf(frame[p].self) = t
    /\ frame[p].event.id \in CallIds(t)
    /\ fate[t][frame[p].event.id].st = "immediate"

\* C12 (as claimed): in every step in which the guard of a type goes from busy
\* to free, the step is the store(false) of the caller that acquired the guard,
\* and the queue of the type is empty.
C12_ReleasedWhenDrained ==
    [][\A t \in Types :
          (dispatch_active[t] /\ ~dispatch_active'[t]) =>
              /\ \E p \in Callers :
                    pc[p] = "release" /\ Acquired(p, t) /\ pc'[p] = "idle"
              /\ pending_queue[t] = <<>>]_vars

----------------------------------------------------------------------------
(* C13 - the order of one producer's events *)

\* The process hook runs on machine m, in order.
ProcessRuns(m) == SelectSeq(trace[m], LAMBDA r : r.hook = "process")

\* C13 (as claimed): the events of one producer are processed in the order in
\* which it submitted them.  Under SpecProducers the producer of a processed
\* event is known by the outcome of its process run (Switch moves, Increment
\* stays), and a producer's calls are numbered in the order it made them.
C13_ProducerOrder ==
    LET s == ProcessRuns("x1") IN
        \A a, b \in 1..Len(s) :
            (a < b /\ s[a].tr.to = s[b].tr.to) => s[a].id < s[b].id

----------------------------------------------------------------------------
(* C14 - the work of one guard-holding call *)

----------------------------------------------------------------------------
(* C15 - who runs the hooks *)

\* C15 (amended): a caller inside a hook run by dispatch holds the guard: the
\* flag of the type is set and the caller's call is the one that won the
\* compare_exchange.  A caller inside the entry hook run by init holds no
\* guard: init makes no compare_exchange.
C15_DispatchHooksUnderGuard ==
    \A p \in Callers :
        LET t == TypeOf(frame[p].self) IN
            /\ pc[p] \in HookPcs => dispatch_active[t] /\ Acquired(p, t)
            /\ pc[p] = "init_entry" => ~Acquired(p, t) /\ p \notin Holders(t)

\* After init ran the entry hook with no guard taken, one caller is inside the
\* exit hook for a call that won the compare_exchange, while another, which
\* lost it, is about to push.
C15_Witness ==
    /\ InitRuns("x1") = 1
    /\ \E p \in Callers : pc[p] = "exit" /\ Acquired(p, "SlowFSM")
    /\ \E q \in Callers : pc[q] = "push" /\ ~Acquired(q, "SlowFSM")

\* C15 as stated: every caller inside a hook, the entry hook of init included,
\* holds the guard.
C15_EveryHookUnderGuard ==
    \A p \in Callers :
        pc[p] \in HookPcs \cup {"init_entry"} =>
            dispatch_active[TypeOf(frame[p].self)] /\ Acquired(p, TypeOf(frame[p].self))

----------------------------------------------------------------------------
(* C16 - what the caller sees of an overflow *)

----------------------------------------------------------------------------
(* C17 - the drop counter *)

\* The push attempts of type t rejected since the last reset of the counter.
RejectedSinceReset(t) == Count(t, "rejected") + Count(t, "dropped")

\* C17 (amended): the counter changes only by the fetch_add(1) of a call whose
\* push was rejected, once per such call, and by a reset, which sets it to 0;
\* so between two resets it never decreases.  Its value is the number of
\* rejected calls that made their fetch_add since the last reset: the calls
\* rejected since then, less those that have not yet made it, plus those
\* rejected before the reset that made it after.
C17_DropCounter ==
    /\ [](\A t \in Types :
            /\ dropped_events_count(t) = Count(t, "dropped") + Count(t, "late")
            /\ Count(t, "rejected") + Count(t, "stale") =
                  Cardinality({p \in Callers :
                                  pc[p] = "overflow" /\ TypeOf(frame[p].self) = t}))
    /\ [][\A t \in Types :
            dropped_events'[t] # dropped_events[t] =>
                \/ /\ dropped_events'[t] = dropped_events[t] + 1
                   /\ \E p \in Callers :
                         /\ pc[p] = "overflow" /\ TypeOf(frame[p].self) = t
                         /\ pc'[p] # "overflow"
                         /\ fate[t][frame[p].event.id].st \in {"rejected", "stale"}
                         /\ fate'[t][frame[p].event.id].st \in {"dropped", "late"}
                \/ /\ dropped_events'[t] = 0
                   /\ \E p \in Callers : reset_dropped_count(p, t)]_vars

\* A push was rejected, the counter was reset before the call made its
\* fetch_add, and the call then counted its drop: the counter shows one with
\* no push rejected since the reset.
C17_Witness ==
    /\ Count("SlowFSM", "late") = 1
    /\ dropped_events_count("SlowFSM") = 1
    /\ RejectedSinceReset("SlowFSM") = 0
    /\ \A p \in Callers : pc[p] # "overflow"

\* C17 as stated: whenever no rejected call is still about to count its drop,
\* the counter equals the number of push attempts rejected since the last
\* reset.
C17_EqualsRejectedSinceReset ==
    \A t \in Types :
        (\A p \in Callers : pc[p] # "overflow") =>
            dropped_events_count(t) = RejectedSinceReset(t)

----------------------------------------------------------------------------
(* C18 - a dispatch call made from inside a hook *)

\* The dispatch calls of type t made from inside a hook.
Nested(t) == {i \in CallIds(t) : fate[t][i].within # 0}

\* The places in the trace of machine m of the steps made for event i.
StepsOf(m, i) == {k \in 1..Len(trace[m]) : trace[m][k].id = i}

\* The hooks of event j on machine m have finished: the last step made for it
\* is a process run that stayed, or the update of the stored state.
HooksFinished(m, j) ==
    /\ StepsOf(m, j) # {}
    /\ LET r == trace[m][CHOOSE k \in StepsOf(m, j) : \A l \in StepsOf(m, j) : l <= k] IN
          \/ r.hook = "process" /\ ~r.tr.to
          \/ r.hook = "commit"

\* Call c of type t is in progress, or was ended by a panic.
NotReturned(t, c) ==
    \E p \in Callers : TypeOf(frame[p].self) = t /\ frame[p].event.id = c

\* C18 (amended): a dispatch call made from inside a hook of call c, while c
\* handles event j, runs no hook: its event is pushed to the queue, or, the
\* queue being full, dropped and counted.  A pushed event is handled by c and
\* by no other call, after every step made for j, and c does not return
\* while the event is in the queue.
C18_RecursiveCallIsDeferred ==
    \A i \in Nested("SlowFSM") :
        LET f == fate["SlowFSM"][i] IN
            /\ f.st \in {"queued", "dequeued", "dropped"}
            /\ f.holder # 0 /\ f.holder # i
            /\ Enqueues("SlowFSM", i) = IF f.st = "dropped" THEN 0 ELSE 1
            /\ f.st = "queued" => NotReturned("SlowFSM", f.holder)
            /\ f.st = "dropped" => StepsOf(f.self, i) = {}
            /\ \A k \in StepsOf(f.self, i) :
                  /\ trace[f.self][k].call = f.holder
                  /\ HooksFinished(f.self, f.within)
                  /\ \A l \in StepsOf(f.self, f.within) : l < k

\* The outer call has returned after handling, in its drain loop, an event
\* that was pushed by a call made from inside its exit or entry hook.
C18_Witness ==
    \E i \in Nested("SlowFSM") :
        LET f == fate["SlowFSM"][i] IN
            /\ f.st = "dequeued"
            /\ ~NotReturned("SlowFSM", f.holder)
            /\ \E k \in StepsOf("x1", i) : trace["x1"][k].call = f.holder
            /\ \E l \in StepsOf("x1", f.within) : trace["x1"][l].hook = "commit"

\* C18 as stated: every dispatch call made from inside a hook enqueues its
\* event.
C18_RecursiveCallEnqueues ==
    \A i \in Nested("SlowFSM") : fate["SlowFSM"][i].st \in {"queued", "dequeued"}

----------------------------------------------------------------------------
(* C19 - the producers' scenario *)

\* Every one of the MaxCalls dispatch calls has been made and has returned.
AllCallsReturned ==
    /\ Len(fate["SlowFSM"]) = MaxCalls
    /\ \A p \in Callers : pc[p] = "idle"

\* C19 (as claimed, with MaxCalls events in place of 30 and QueueCapacity in
\* place of 16): once every call has returned, the context counter equals the
\* number of events submitted, and the drop counter equals that number less
\* the number of events applied.
C19_AllIncrementsCounted ==
    AllCallsReturned =>
        /\ ctx["x1"].counter = MaxCalls
        /\ dropped_events_count("SlowFSM") = MaxCalls - Len(ProcessRuns("x1"))

----------------------------------------------------------------------------
(* C20 - calls serialized by an external lock *)

\* The dispatch calls made on machine m that have not run the process hook of
\* their own event yet.
AtProcess(m) ==
    Cardinality({p \in Callers : pc[p] = "process" /\ frame[p].self = m})

\* C20: when the calls are serialized by an external lock, every call acquires
\* the guard and applies its own event before it returns: nothing is enqueued
\* or dropped, the events are applied in call order, and once k calls have
\* returned exactly k events have been processed.
C20_SerializedCallsApplyOwnEvent ==
    /\ \A p \in Callers : pc[p] \notin {"push", "overflow", "panicked"}
    /\ \A t \in Types :
        /\ pending_queue[t] = <<>>
        /\ enq_log[t] = <<>>
        /\ dropped_events_count(t) = 0
        /\ \A i \in CallIds(t) : fate[t][i].st = "immediate"
    /\ \A m \in Machines :
        LET s == ProcessRuns(m) IN
            /\ \A j \in 1..Len(s) : s[j].id = j /\ s[j].call = j
            /\ Dispatched(m) => Len(s) + AtProcess(m) = Len(fate[TypeOf(m)])
            /\ ~Dispatched(m) => s = <<>>

\* Both callers have made calls, all MaxCalls calls have returned, and the
\* machine has moved.
C20_Witness ==
    /\ ExternalLockFree
    /\ Len(fate["SlowFSM"]) = MaxCalls
    /\ Len(ProcessRuns("x1")) = MaxCalls
    /\ \E j \in 1..MaxCalls : ProcessRuns("x1")[j].tr.to
    /\ ~dispatch_active["SlowFSM"]

----------------------------------------------------------------------------
(* C21 - init *)

\* Caller p is in init on machine m, and the step leaves the statics of every
\* type and every stored state as they are.
InitLeavesAlone(p) ==
    /\ fsm' = fsm
    /\ dispatch_active' = dispatch_active
    /\ pending_queue' = pending_queue
    /\ dropped_events' = dropped_events

\* C21: a call of init runs the entry hook of the stored state once, and
\* nothing else: entering init changes nothing, and the one step inside init
\* applies on_entry of the stored state to the context, adds one entry run and
\* no other run to the trace, and leaves the stored state, the guard, the queue
\* and the drop counter unchanged.
C21_InitRunsOnlyEntry ==
    [][\A p \in Callers :
        /\ (pc[p] = "idle" /\ pc'[p] = "init_entry") =>
                /\ InitLeavesAlone(p)
                /\ ctx' = ctx
                /\ trace' = trace
        /\ (pc[p] = "init_entry" /\ pc'[p] # pc[p]) =>
                LET m == frame[p].self IN
                    /\ pc'[p] = "idle"
                    /\ InitLeavesAlone(p)
                    /\ ctx' = [ctx EXCEPT ![m] = on_entry(fsm[m], ctx[m])]
                    /\ Len(trace'[m]) = Len(trace[m]) + 1
                    /\ \A k \in 1..Len(trace[m]) : trace'[m][k] = trace[m][k]
                    /\ trace'[m][Len(trace'[m])].hook = "entry"
                    /\ trace'[m][Len(trace'[m])].on = fsm[m]
                    /\ \A o \in Machines \ {m} : trace'[o] = trace[o]
     ]_vars

\* init has returned after it ran entry on a machine in use: the entry run of
\* init is the last of several runs, a dispatch holds the guard and an event
\* is waiting in the queue.
C21_Witness ==
    /\ InitRuns("x1") = 1
    /\ Len(trace["x1"]) > 1
    /\ trace["x1"][Len(trace["x1"])].id = 0
    /\ trace["x1"][Len(trace["x1"])].hook = "entry"
    /\ fsm["x1"].tag = "StateY"
    /\ dispatch_active["SlowFSM"]
    /\ pending_queue["SlowFSM"] # <<>>
    /\ \A p \in Callers : pc[p] # "init_entry"

----------------------------------------------------------------------------
(* C22 - dispatch without init *)

\* C22: on a machine on which init was not called, every entry run belongs to
\* a move: it runs on the state that the process run of the same event moved
\* to, two steps earlier.  So the entry hook of the initial state has run only
\* if a move went into that state again.  The first run on the machine is the
\* process hook on the initial state, and the entries counted in the context
\* of SlowFSM are the entry runs of the moves.
C22_NoInitNoInitialEntry ==
    \A m \in Machines :
        InitRuns(m) = 0 =>
            LET s == trace[m] IN
                /\ \A i \in 1..Len(s) :
                      s[i].hook = "entry" =>
                          /\ i >= 3
                          /\ s[i - 2].hook = "process"
                          /\ s[i - 2].tr.to
                          /\ s[i - 2].tr.new_state = s[i].on
                          /\ s[i - 2].id = s[i].id
                /\ s # <<>> =>
                      /\ s[1].hook = "process"
                      /\ s[1].on = InitialState(m)
                /\ TypeOf(m) = "SlowFSM" =>
                      ctx[m].entry_count = NumberOf(m, "entry")

\* Without init, an Increment was processed in the initial state, with no
\* entry run; two moves later the machine is in its initial state again,
\* whose entry hook has now run once.
C22_Witness ==
    LET s == trace["x1"] IN
        /\ InitRuns("x1") = 0
        /\ Quiescent
        /\ Len(s) >= 9
        /\ s[1].hook = "process" /\ ~s[1].tr.to /\ s[1].ctx.counter = 1
        /\ s[1].ctx.entry_count = 0
        /\ fsm["x1"] = InitialState("x1")
        /\ ctx["x1"].entry_count = 2
        /\ Cardinality({i \in 1..Len(s) :
                s[i].hook = "entry" /\ s[i].on = InitialState("x1")}) = 1

----------------------------------------------------------------------------
(* C23 - the two-state toggle *)

\* The number of Tick dispatches made on the toggle.
Ticks == Len(fate["BlinkFSM"])

\* C23: on the toggle started in On and driven by one thread, after init and n
\* Tick dispatches (all returned) the counter is n + 1 and the state is Off
\* when n is odd and On when n is even.
C23_ToggleCounter ==
    (InitRuns("b1") = 1 /\ pc["t1"] = "idle") =>
        /\ ctx["b1"].tick_count = Ticks + 1
        /\ fsm["b1"].tag = IF Ticks % 2 = 1 THEN "Off" ELSE "On"

\* init and three Tick dispatches have returned: the counter is 4 and the
\* state is Off.
C23_Witness ==
    /\ InitRuns("b1") = 1
    /\ pc["t1"] = "idle"
    /\ Ticks = 3
    /\ ctx["b1"].tick_count = 4
    /\ fsm["b1"].tag = "Off"

----------------------------------------------------------------------------
(* C24 - the statics of different types *)

\* The machine on which caller p acts in the step.
ActsOn(p) == IF pc[p] = "idle" THEN frame'[p].self ELSE frame[p].self

\* C24: the guard, the queue and the drop counter of a type are touched only
\* by the calls on machines of that type, and looked at only by them: a step
\* of a call on a machine of type B leaves the statics of every other type and
\* every other machine as they are; the call acquires B's guard exactly when
\* B's guard is free, whatever the guards of the other types are, and the
\* call that acquired it then runs the process hook of its own event.
C24_TypesAreIndependent ==
    [][\A p \in Callers :
        pc'[p] # pc[p] =>
            LET m == ActsOn(p)
                t == TypeOf(m)
            IN
                /\ \A o \in Types \ {t} :
                      /\ dispatch_active'[o] = dispatch_active[o]
                      /\ pending_queue'[o] = pending_queue[o]
                      /\ dropped_events'[o] = dropped_events[o]
                      /\ enq_log'[o] = enq_log[o]
                /\ \A n \in Machines \ {m} :
                      fsm'[n] = fsm[n] /\ ctx'[n] = ctx[n] /\ trace'[n] = trace[n]
                /\ pc[p] = "idle" =>
                      IF dispatch_active[t]
                      THEN pc'[p] = "push" /\ dispatch_active' = dispatch_active
                      ELSE /\ pc'[p] = "process"
                           /\ dispatch_active'[t]
                           /\ frame'[p].evt = frame'[p].event
                /\ (pc[p] = "process" /\ HoldsUndrained(p)) =>
                      /\ Len(trace'[m]) = Len(trace[m]) + 1
                      /\ trace'[m][Len(trace'[m])].hook = "process"
                      /\ trace'[m][Len(trace'[m])].id = frame[p].event.id
     ]_vars

\* Caller t1 holds SlowFSM's guard and is still inside the first hook of its
\* call; two events wait in SlowFSM's queue, pushed by t2; t2 has since called
\* dispatch on the BlinkFSM instance, acquired BlinkFSM's guard and moved the
\* machine, and is about to return.
C24_Witness ==
    /\ pc["t1"] = "process" /\ frame["t1"].self = "x1"
    /\ trace["x1"] = <<>>
    /\ dispatch_active["SlowFSM"]
    /\ Len(pending_queue["SlowFSM"]) = 2
    /\ pc["t2"] = "release" /\ frame["t2"].self = "b1"
    /\ dispatch_active["BlinkFSM"]
    /\ fsm["b1"].tag = "Off"
    /\ fate["BlinkFSM"][1].st = "immediate"

----------------------------------------------------------------------------
(* C25 - the protected and the unprotected dispatch *)

\* The hook runs of machine m from step i on: hook and state, without the
\* records of the state updates.
HooksFrom(m, i) ==
    LET s == SelectSeq(SubSeq(trace[m], i, Len(trace[m])),
                       LAMBDA r : r.hook # "commit")
    IN [k \in 1..Len(s) |-> [hook |-> s[k].hook, on |-> s[k].on]]

\* The first step of the dispatch call with id c in the trace of machine m.
FirstStepOf(m, c) ==
    CHOOSE i \in 1..Len(trace[m]) :
        /\ trace[m][i].call = c /\ trace[m][i].id # 0
        /\ \A k \in 1..(i - 1) : trace[m][k].call # c \/ trace[m][k].id = 0

\* The stored state before step i of a machine's trace.
StoredBefore(m, i) == IF i = 1 THEN InitialState(m) ELSE trace[m][i - 1].stored

\* C25: with calls that never overlap and a queue empty at the start, a call
\* of the protected dispatch that has done all its work (it is about to store
\* false and return) has run the hooks that the unprotected dispatch runs on
\* the same stored state, context and event, in the same order and on the
\* same states, and has left the same stored state and the same context.
\* Both start from the same state and context, so they agree after every call
\* of an event sequence.
C25_SameAsUnprotected ==
    \A p \in Callers :
        pc[p] = "release" =>
            LET m == frame[p].self
                i == FirstStepOf(m, frame[p].event.id)
                u == dispatch_unprotected(StoredBefore(m, i), CtxBefore(m, i),
                                          frame[p].event.kind)
            IN
                /\ \E k \in 1..Len(trace[m]) :
                      trace[m][k].call = frame[p].event.id /\ trace[m][k].id # 0
                /\ HooksFrom(m, i) = u.hooks
                /\ fsm[m] = u.self
                /\ ctx[m] = u.ctx

\* The third call on the SlowFSM instance, a Switch after a Switch and an
\* Increment, is about to return: it ran process, exit and entry.
C25_Witness ==
    \E p \in Callers :
        /\ pc[p] = "release"
        /\ frame[p].self = "x1"
        /\ frame[p].event = [kind |-> "Switch", id |-> 3]
        /\ ctx["x1"].counter = 1
        /\ ctx["x1"].exit_count = 2
        /\ fsm["x1"].tag = "StateX"

----------------------------------------------------------------------------
(* C26 - the queue neither reorders nor duplicates *)

\* The ids of the events taken from the queue whose process hook has run on
\* machine m, in the order of the runs.
DrainedIds(m) ==
    LET s == SelectSeq(trace[m], LAMBDA r : r.hook = "process" /\ r.id # r.call)
    IN [k \in 1..Len(s) |-> s[k].id]

\* The callers that hold an event taken from the queue of type t whose
\* process hook has not run yet.
Takers(t) ==
    {p \in Callers : /\ pc[p] = "process" /\ TypeOf(frame[p].self) = t
                     /\ frame[p].evt.id # frame[p].event.id}

\* The id of that event (a sequence of one id, or empty).
TakenIds(t) ==
    IF Takers(t) = {} THEN <<>> ELSE <<frame[CHOOSE p \in Takers(t) : TRUE].evt.id>>

QueuedIds(t) == [k \in 1..Len(pending_queue[t]) |-> pending_queue[t][k].id]

\* C26: for every machine, the events taken from the queue and processed, then
\* the one taken and not yet processed, then the events still in the queue,
\* are the successfully enqueued events in the order of their push_back, each
\* once: nothing is reordered or duplicated; every such event was submitted by
\* one deferred dispatch call, and no event has run the process hook twice.
C26_QueueKeepsOrderOnce ==
    \A m \in Machines :
        LET t == TypeOf(m) IN
            /\ Cardinality(Takers(t)) <= 1
            /\ DrainedIds(m) \o TakenIds(t) \o QueuedIds(t) = enq_log[t]
            /\ \A a, b \in 1..Len(enq_log[t]) :
                  enq_log[t][a] = enq_log[t][b] => a = b
            /\ \A a \in 1..Len(enq_log[t]) :
                  /\ enq_log[t][a] \in CallIds(t)
                  /\ fate[t][enq_log[t][a]].st \in {"queued", "dequeued"}
                  /\ fate[t][enq_log[t][a]].st = "queued" <=>
                        \E k \in 1..Len(QueuedIds(t)) : QueuedIds(t)[k] = enq_log[t][a]
            /\ \A i \in CallIds(t) :
                  Cardinality({k \in 1..Len(trace[m]) :
                      trace[m][k].hook = "process" /\ trace[m][k].id = i}) <= 1

\* Two events taken from the queue have been processed, in the order of their
\* push, and a third one, pushed meanwhile, is still in the queue.
C26_Witness ==
    /\ Len(DrainedIds("x1")) = 2
    /\ DrainedIds("x1") = SubSeq(enq_log["SlowFSM"], 1, 2)
    /\ Len(pending_queue["SlowFSM"]) = 1
    /\ Len(enq_log["SlowFSM"]) = 3

----------------------------------------------------------------------------
(* C27 - the effect of an overflow *)

\* The step ends a dispatch call of type t whose push was rejected: the drop
\* counter of t changes.
OverflowStep(t) == dropped_events'[t] # dropped_events[t]

\* What every overflow leaves alone: the queue, the guard, the stored state,
\* the context and the hook runs.
OverflowLeavesAlone ==
    /\ pending_queue' = pending_queue
    /\ dispatch_active' = dispatch_active
    /\ fsm' = fsm
    /\ ctx' = ctx
    /\ trace' = trace

\* The overflowing call was made from inside a hook of the dispatcher.
NestedOverflow(t) ==
    /\ Len(fate'[t]) = Len(fate[t]) + 1
    /\ fate'[t][Len(fate'[t])].within # 0

----------------------------------------------------------------------------
(* C28 - a fault in exit or entry *)

\* The call of caller p was ended by a fault of a hook of a move.
Faulted(p) == pc[p] = "panicked" /\ frame[p].new_state # IdleFrame.new_state

----------------------------------------------------------------------------
(* C29 - reset and read of the drop counter *)

\* The step is a reset of the drop counter of type t: a call's fate changes
\* to cleared or stale, which only a reset does, or the counter goes down.
ResetStep(t) ==
    \/ dropped_events'[t] < dropped_events[t]
    \/ /\ Len(fate'[t]) = Len(fate[t])
       /\ \E i \in CallIds(t) :
             /\ fate'[t][i].st # fate[t][i].st
             /\ fate'[t][i].st \in {"cleared", "stale"}

\* C29: a reset sets the drop counter of its type to zero and changes nothing
\* else: not the queues, the guards, the stored states, the contexts, the
\* counters of other types or the position of any call; and as long as no
\* call has made the fetch_add of an overflow since the last reset,
\* dropped_events_count returns 0.  dropped_events_count is a read.
C29_ResetZeroesCounterOnly ==
    /\ [](\A t \in Types :
            Count(t, "dropped") + Count(t, "late") = 0 => dropped_events_count(t) = 0)
    /\ [][\A t \in Types :
            ResetStep(t) =>
                /\ dropped_events_count(t)' = 0
                /\ \A o \in Types \ {t} : dropped_events'[o] = dropped_events[o]
                /\ pending_queue' = pending_queue
                /\ dispatch_active' = dispatch_active
                /\ fsm' = fsm
                /\ ctx' = ctx
                /\ pc' = pc
                /\ frame' = frame
                /\ trace' = trace]_vars

\* The counter was reset after a drop, while a dispatch holds the guard and
\* the queue is full: the counter reads 0, the queue is still full and the
\* guard still set.
C29_Witness ==
    /\ Count("SlowFSM", "cleared") = 1
    /\ dropped_events_count("SlowFSM") = 0
    /\ Len(pending_queue["SlowFSM"]) = QueueCapacity
    /\ dispatch_active["SlowFSM"]
    /\ \E p \in Callers : pc[p] \in HookPcs

----------------------------------------------------------------------------
(* C30 - a queued event meets the state of its dequeue *)

\* C30: every process run, that of an event taken from the queue included,
\* runs on the state stored at that moment, the one left by the step before
\* it: after a move made for an earlier event, the next event taken from the
\* queue is processed by the state moved to, whatever the state was when the
\* event was submitted.
C30_ProcessedByCurrentState ==
    \A m \in Machines :
        LET s == trace[m] IN
            \A k \in 1..Len(s) :
                s[k].hook = "process" =>
                    /\ s[k].on = StoredBefore(m, k)
                    /\ \A j \in 1..(k - 1) :
                          (s[j].hook = "commit" /\ \A l \in (j + 1)..(k - 1) :
                                                     s[l].hook # "commit")
                              => s[k].on = s[j].stored
                    /\ (\A j \in 1..(k - 1) : s[j].hook # "commit")
                              => s[k].on = InitialState(m)

\* Events 2 (Switch) and 3 (Increment) were both in the queue when the push of
\* event 4 was rejected, so event 3 was submitted before event 2 was taken
\* out, with the machine in StateX; event 2 moved the machine, and event 3 was
\* then processed by StateY.
C30_Witness ==
    LET s == trace["x1"]
        f == fate["SlowFSM"]
    IN
        /\ Len(f) = 4
        /\ f[1].st = "immediate" /\ f[2].holder = 1 /\ f[3].holder = 1
        /\ f[4].holder = 1 /\ f[4].st \in {"rejected", "dropped"}
        /\ \E a, b \in 1..Len(s) :
              /\ a < b
              /\ s[a].hook = "process" /\ s[a].id = 2 /\ s[a].tr.to
              /\ s[a].on.tag = "StateX"
              /\ s[b].hook = "process" /\ s[b].id = 3 /\ ~s[b].tr.to
              /\ s[b].on.tag = "StateY"

----------------------------------------------------------------------------
(* C31 - who changes the stored state *)

\* C31: the stored state of a machine changes only in the step *self =
\* new_state of a move, made by the call that holds the guard of the machine's
\* type, and it becomes the state that the process hook of the event returned.
\* No step of init, of a deferred call (push, overflow) or of a reset of the
\* drop counter changes it; dropped_events_count is a read.
C31_StoredStateChangesAtCommit ==
    [][\A m \in Machines :
        fsm'[m] # fsm[m] =>
            \E p \in Callers :
                /\ pc[p] = "commit" /\ pc'[p] = "pop"
                /\ frame[p].self = m
                /\ dispatch_active[TypeOf(m)]
                /\ Holders(TypeOf(m)) = {p}
                /\ fsm'[m] = frame[p].new_state
                /\ \E k \in 1..Len(trace[m]) :
                      /\ trace[m][k].hook = "process"
                      /\ trace[m][k].id = frame[p].evt.id
                      /\ trace[m][k].tr.to
                      /\ trace[m][k].tr.new_state = fsm'[m]
     ]_vars

\* After init, a drop and a reset of the drop counter, the machine has moved
\* once, by an event taken from the queue.
C31_Witness ==
    /\ InitRuns("x1") = 1
    /\ Count("SlowFSM", "cleared") = 1
    /\ fsm["x1"].tag = "StateY"
    /\ NumberOf("x1", "commit") = 1
    /\ \E k \in 1..Len(trace["x1"]) :
          trace["x1"][k].hook = "commit" /\ trace["x1"][k].id # trace["x1"][k].call


\* The capacity the macro hands to the generated statics: the QueueCapacity
\* given in the invocation, or 16 when the invocation has none.
DefaultQueueCapacity == 16

\* given is <<>> for an invocation without QueueCapacity, <<n>> for one with
queue_capacity(given) == IF given = <<>> THEN DefaultQueueCapacity ELSE given[1]

DeferredStep(p) ==
    \/ pc[p] = "idle" /\ pc'[p] = "push"
    \/ pc[p] \in {"push", "overflow"} /\ pc'[p] # pc[p]
    \/ /\ pc[p] \in HookPcs
       /\ Len(fate'[TypeOf(frame[p].self)]) > Len(fate[TypeOf(frame[p].self)])

\* What one step of the deferred path does to the statics of type t when the
\* event at hand is e: nothing (the lost compare_exchange, the refused push),
\* or e appended to the queue, or one added to the drop counter.
DeferredEffect(t, e) ==
    \/ pending_queue' = pending_queue /\ dropped_events' = dropped_events
    \/ /\ pending_queue' = [pending_queue EXCEPT ![t] = Append(@, e)]
       /\ dropped_events' = dropped_events
    \/ /\ pending_queue' = pending_queue
       /\ dropped_events' = [dropped_events EXCEPT ![t] = @ + 1]

(* C33 - a dispatch call on the deferred path runs no hook and leaves   *)
(* the stored state, the context and the guard as they are; of the      *)
(* shared data it changes the queue, by its one event appended, or the  *)
(* drop counter, by one, and no call changes both                       *)
C33_DeferredPathFrame ==
    /\ [][\A p \in Callers :
            DeferredStep(p) =>
                LET t == TypeOf(frame'[p].self)
                    e == IF pc[p] \in HookPcs
                         THEN [kind |-> pending_queue'[t][Len(pending_queue'[t])].kind,
                               id |-> Len(fate'[t])]
                         ELSE (IF pc[p] = "idle" THEN frame'[p].event ELSE frame[p].event)
                IN  /\ trace' = trace
                    /\ fsm' = fsm
                    /\ ctx' = ctx
                    /\ dispatch_active' = dispatch_active
                    /\ DeferredEffect(t, e)
         ]_vars
    /\ [](\A m \in Machines : \A k \in 1..Len(trace[m]) :
            trace[m][k].hook # "init" =>
                fate[TypeOf(m)][trace[m][k].call].st = "immediate")
    /\ [](\A t \in Types :
            /\ dropped_events[t] = Count(t, "dropped")
            /\ \A i \in Deferred(t) :
                  /\ Enqueues(t, i) <= 1
                  /\ fate[t][i].st = "dropped" => Enqueues(t, i) = 0
                  /\ Enqueues(t, i) = 1 => fate[t][i].st \in {"queued", "dequeued"})

\* a deferred call has enqueued its event, another has been refused and
\* counted, and one of the deferred calls was made from inside a hook
C33_Witness ==
    /\ \E i, j \in Deferred("SlowFSM") :
          /\ fate["SlowFSM"][i].st \in {"queued", "dequeued"}
          /\ fate["SlowFSM"][i].within = 0
          /\ fate["SlowFSM"][j].st = "dropped"
    /\ Nested("SlowFSM") # {}
    /\ dropped_events["SlowFSM"] = 1


\* The callers inside a dispatch call of type t, on either path.
InDispatch(t) ==
    {p \in Callers : /\ pc[p] \notin {"idle", "panicked", "init_entry"}
                     /\ TypeOf(frame[p].self) = t}

\* Caller p enters dispatch on a machine of type t in this step.
DispatchCalled(p, t) ==
    /\ pc[p] = "idle"
    /\ pc'[p] \notin {"idle", "init_entry"}
    /\ TypeOf(frame'[p].self) = t

(* C34 - no hook faulting, the guard of a type is busy exactly while a  *)
(* dispatch call that won the compare_exchange has not returned; so it  *)
(* is free whenever no dispatch call of the type is in progress, and a  *)
(* dispatch call made then acquires it                                  *)
C34_GuardBusyWhileHeld ==
    /\ [](\A t \in Types :
            /\ dispatch_active[t] <=> \E p \in InDispatch(t) : Acquired(p, t)
            /\ Cardinality({p \in InDispatch(t) : Acquired(p, t)}) <= 1
            /\ InDispatch(t) = {} => ~dispatch_active[t])
    /\ [][\A t \in Types : \A p \in Callers :
            (DispatchCalled(p, t) /\ InDispatch(t) = {}) =>
                /\ pc'[p] = "process"
                /\ dispatch_active'[t]
                /\ fate'[t][frame'[p].event.id].st = "immediate"
         ]_vars

\* a call acquired the guard, a deferred event was drained by it, it returned,
\* and the next call, made with no dispatch in progress, holds the guard
C34_Witness ==
    /\ Count("SlowFSM", "immediate") = 2
    /\ Count("SlowFSM", "dequeued") = 1
    /\ Len(fate["SlowFSM"]) = 3
    /\ fate["SlowFSM"][3].st = "immediate"
    /\ \E p \in Callers : InDispatch("SlowFSM") = {p} /\ frame[p].event.id = 3
    /\ dispatch_active["SlowFSM"]


\* The dispatch calls of type t made so far that are past their decision: all
\* but those of the callers that lost the compare_exchange and have not yet
\* had their event enqueued or counted as a drop.
Decided(t) ==
    Len(fate[t]) - Cardinality({p \in Callers : /\ pc[p] \in {"push", "overflow"}
                                                /\ TypeOf(frame[p].self) = t})

(* C35 - with no reset of the drop counter, in every reachable state    *)
(* the number of dispatch calls that have completed their decision is   *)
(* the number of events taken as immediate events, plus the number      *)
(* dequeued, plus the number in the queue, plus the drop counter        *)
C35_EveryDecidedCallAccounted ==
    \A t \in Types :
        Decided(t) = Count(t, "immediate") + Count(t, "dequeued")
                        + Len(pending_queue[t]) + dropped_events_count(t)

\* one immediate event, one event dequeued, one still queued, one dropped
C35_Witness ==
    /\ Count("SlowFSM", "immediate") = 1
    /\ Count("SlowFSM", "dequeued") = 1
    /\ Len(pending_queue["SlowFSM"]) = 1
    /\ dropped_events_count("SlowFSM") = 1
    /\ Decided("SlowFSM") = 4


\* Sequence a is an initial part of sequence b.
IsPrefix(a, b) == Len(a) <= Len(b) /\ \A k \in 1..Len(a) : a[k] = b[k]

\* The events left behind in the queue of type t: in the queue with the guard
\* free, or with the holder past its last pop_front (which returned None).
LeftBehind(t) ==
    IF \A p \in Holders(t) : pc[p] = "release"
    THEN {pending_queue[t][k].id : k \in 1..Len(pending_queue[t])}
    ELSE {}

\* Call c of type t is the first call that won the compare_exchange after call
\* h did (the calls are numbered as they enter dispatch, and a call that wins
\* the compare_exchange wins it on entry).
NextAcquirer(t, h, c) ==
    /\ c \in CallIds(t) /\ fate[t][c].st = "immediate"
    /\ c > h
    /\ \A d \in CallIds(t) : (h < d /\ d < c) => fate[t][d].st # "immediate"

Poisoned(t) ==
    \E p \in Callers :
        /\ pc[p] = "panicked"
        /\ frame[p] # IdleFrame
        /\ Acquired(p, t)

(* C37 - once a hook has faulted inside a dispatch call that holds the  *)
(* guard, the guard is never released: the flag stays busy, every       *)
(* dispatch call of the type made afterwards takes the deferred path,   *)
(* no hook of the type runs again, and when the queue has filled up     *)
(* every further event is dropped                                       *)
C37_FaultPoisonsTheType ==
    /\ [](\A t \in Types : Poisoned(t) => dispatch_active[t] /\ Holders(t) = {})
    /\ [][\A t \in Types :
            Poisoned(t) =>
                /\ Poisoned(t)'
                /\ dispatch_active'[t]
                /\ \A m \in Machines :
                      TypeOf(m) = t =>
                          /\ trace'[m] = trace[m]
                          /\ fsm'[m] = fsm[m]
                          /\ ctx'[m] = ctx[m]
                /\ \A p \in Callers :
                      /\ DispatchCalled(p, t) =>
                            /\ pc'[p] = "push"
                            /\ fate'[t][frame'[p].event.id].st = "pushing"
                      /\ (pc[p] = "push" /\ pc'[p] # "push" /\ TypeOf(frame[p].self) = t) =>
                            IF Len(pending_queue[t]) < QueueCapacity
                            THEN pending_queue'[t] = Append(pending_queue[t], frame[p].event)
                            ELSE pc'[p] = "overflow" /\ pending_queue'[t] = pending_queue[t]
                      /\ (pc[p] = "overflow" /\ pc'[p] # "overflow"
                              /\ TypeOf(frame[p].self) = t) =>
                            dropped_events'[t] = dropped_events[t] + 1
                /\ IsPrefix(pending_queue[t], pending_queue'[t])
         ]_vars

\* the exit hook faulted in the call that held the guard; QueueCapacity later
\* events fill the queue, the one after them is dropped and counted, and the
\* only step in the trace is the process run of the first event
C37_Witness ==
    /\ Poisoned("SlowFSM")
    /\ \E p \in Callers : pc[p] = "panicked" /\ frame[p].event.id = 1
    /\ Len(trace["x1"]) = 1
    /\ Len(pending_queue["SlowFSM"]) = QueueCapacity
    /\ \A k \in 1..QueueCapacity : pending_queue["SlowFSM"][k].id > 1
    /\ dropped_events["SlowFSM"] = 1
    /\ Len(fate["SlowFSM"]) = QueueCapacity + 2
    /\ fate["SlowFSM"][QueueCapacity + 2].st = "dropped"


\* The instance on which dispatch call i of type t was made.
InstanceOf(t, i) == fate[t][i].self

\* Caller p is handling an event that came from the queue and was submitted
\* through another instance than the one p called dispatch on.
HandlesForeign(p) ==
    /\ pc[p] \in {"process", "exit", "entry", "commit"}
    /\ InstanceOf(TypeOf(frame[p].self), frame[p].evt.id) # frame[p].self

(* C38 - of two instances A and B of one type, an event passed to       *)
(* B.dispatch while a dispatch on A holds the guard of the type goes    *)
(* into the queue they share and is processed by A's drain loop, on A's *)
(* stored state and A's context; B's state and context are not changed  *)
(* by that event                                                        *)
C38_ForeignEventRunsOnHolder ==
    /\ [](\A a \in Instances : \A k \in 1..Len(trace[a]) :
            LET r == trace[a][k]
                t == TypeOf(a)
            IN  /\ InstanceOf(t, r.call) = a
                /\ (r.hook = "process" /\ InstanceOf(t, r.id) # a) =>
                      /\ r.id # r.call
                      /\ fate[t][r.id].st = "dequeued"
                      /\ Enqueues(t, r.id) = 1
                      /\ r.on = StoredBefore(a, k)
                      /\ \E kind \in EventKinds(t) :
                            /\ r.ctx = on_process(r.on, CtxBefore(a, k), kind).ctx
                            /\ r.tr = on_process(r.on, CtxBefore(a, k), kind).tr
                      /\ \A j \in 1..Len(trace[InstanceOf(t, r.id)]) :
                            trace[InstanceOf(t, r.id)][j].id # r.id)
    /\ [][\A p \in Callers :
            HandlesForeign(p) =>
                LET b == InstanceOf(TypeOf(frame[p].self), frame[p].evt.id) IN
                    (pc'[p] # pc[p]) =>
                        /\ fsm'[b] = fsm[b]
                        /\ ctx'[b] = ctx[b]
                        /\ trace'[b] = trace[b]]_vars
    /\ [][\A p \in Callers :
            (pc[p] = "pop" /\ pc'[p] = "process") =>
                /\ frame'[p].self = frame[p].self
                /\ frame'[p].evt = pending_queue[TypeOf(frame[p].self)][1]]_vars

\* x2 was moved to StateY by an earlier call; then a Switch passed to
\* x2.dispatch while x1's dispatch held the guard was taken from the queue by
\* x1's call and moved x1 to StateY; x2 made one move only
C38_Witness ==
    /\ Quiescent
    /\ fsm["x2"].tag = "StateY"
    /\ fsm["x1"].tag = "StateY"
    /\ ctx["x2"].exit_count = 1
    /\ ctx["x1"].exit_count = 1
    /\ \E k \in 1..Len(trace["x1"]) :
          /\ trace["x1"][k].hook = "process"
          /\ InstanceOf("SlowFSM", trace["x1"][k].id) = "x2"
          /\ trace["x1"][k].on.tag = "StateX"
          /\ trace["x1"][k].tr.to

====
